---- MODULE Spec2Model ----
(***************************************************************************)
(* Session registry, liveness prober and cross-window focus router of the  *)
(* Claude ATTN extension, modelled from src/src/sessionManager.ts,         *)
(* src/src/sessionCleaner.ts, src/src/crossWindowIpc.ts and the producer   *)
(* hook scripts.                                                           *)
(***************************************************************************)
EXTENDS Integers, Sequences, FiniteSets, TLC

VARIABLES
    now,        \* wall clock, milliseconds (Date.now())
    platform,   \* process.platform of the machine: "unix" or "win32"
    tzOffset,   \* offset of the machine's local time from UTC, milliseconds
    alive,      \* pids of the agent processes the OS currently runs
    disk,       \* sessions directory: session id -> content of <id>.json
    reg,        \* SessionManager.sessions of each window: id -> record
    roots,      \* vscode.workspace.workspaceFolders of each window (fsPath)
    clean,      \* SessionCleaner.cleanupNow in flight, per window
    focusFile,  \* content and mtime of focus-request.json
    writes,     \* history: how many times the request file has been written
    ipc,        \* CrossWindowIpc of each window: its fields and its poll
    acted,      \* history: the focus requests the windows have acted upon
    exposed,    \* history: requests a second reader could get after a claim
    replaced,   \* history: requests overwritten while the file still held them
    dir,        \* the sessions directory exists
    watch,      \* FSWatcher on the sessions directory: its fields and timers
    loads,      \* loadSessions calls of each window waiting at their await
    terminals,  \* the terminals of window w1: not yet opened, open, closed
    terminalPidCache,   \* terminalPidCache of window w1
    tracker,    \* terminalTracker of window w1: its two maps
    focusing,   \* focus actions of window w1 waiting at an await
    procs,      \* the OS's process table: pid -> parent pid
    processChainCache,  \* processChainCache: start pid -> chain and timestamp
    walking,    \* the call of getProcessChain that waits for the OS, if any
    polling,    \* per window: pollingInterval and the intervals that run
    lastOp      \* the operation that produced this state, with its result

storeVars == <<now, platform, tzOffset, alive, disk, reg, roots, clean>>

focusVars == <<focusFile, writes, ipc, acted, exposed, replaced>>

\* state of the components that neither the store nor the focus router owns
\* the terminal state other than the affinity maps
termRest == <<terminals, terminalPidCache, focusing>>

termVars == <<termRest, tracker>>

\* the process table and the memoized ancestor chains
chainVars == <<procs, processChainCache, walking>>

auxVars == <<watch, loads, termVars, chainVars, polling>>

extVars == <<dir, auxVars>>

vars == <<storeVars, focusVars, extVars, lastOp>>

----------------------------------------------------------------------------
(* Bounds of the model *)

\* the clock stops at this many milliseconds
MaxTime == 2000

\* the OS watch of the directory watcher errors at most this many times
MaxWatchErrors == 2

\* at most this many loadSessions calls of one window wait at their await
MaxLoads == 2

\* at most this many focus actions of the window wait at an await
MaxFocusing == 1

\* a window calls startPolling at most this many times
MaxStarts == 2

\* while the directory watcher runs the clock moves in steps of WatchTickMs
\* up to WatchBurstEnd and in steps of the restart delay up to WatchMaxTime
WatchTickMs == 25
WatchBurstEnd == 1150
WatchMaxTime == 2200

----------------------------------------------------------------------------
(* Values *)

Windows == {"w1", "w2"}

\* the window whose registry, terminals and affinities are followed
RegWindow == "w1"

\* JSON / JavaScript value markers for optional fields
AbsentS == "<absent>"          \* the key is not in the object
UndefinedS == "<undefined>"    \* the key is there, its value is undefined
AbsentN == -1
UndefinedN == -2

\* content of a file
NoFile == [kind |-> "none"]
\* a file that exists but holds no complete JSON text (truncated by ">"
\* before the producer's write lands): JSON.parse throws on it
Truncated == [kind |-> "trunc"]
JsonFile(obj) == [kind |-> "json", obj |-> obj]

\* a registry slot with no entry
NoSession == [id |-> AbsentS]

----------------------------------------------------------------------------
(* Session ids as the character sequences the regular expression sees *)

SessionIds == {"ppid-100", "ppid-200", "ppid-7x"}

\* Map iteration order of the registry = directory order of the files
IdOrder == <<"ppid-100", "ppid-200", "ppid-7x">>

IdChars(id) ==
    CASE id = "ppid-100" -> <<"p", "p", "i", "d", "-", "1", "0", "0">>
      [] id = "ppid-200" -> <<"p", "p", "i", "d", "-", "2", "0", "0">>
      [] id = "ppid-7x"  -> <<"p", "p", "i", "d", "-", "7", "x">>
      [] id = "ppid-"    -> <<"p", "p", "i", "d", "-">>
      [] id = "xppid-1"  -> <<"x", "p", "p", "i", "d", "-", "1">>
      [] id = "tok-9"    -> <<"t", "o", "k", "-", "9">>
      [] OTHER           -> <<>>

Digits == {"0", "1", "2", "3", "4", "5", "6", "7", "8", "9"}

DigitVal(c) ==
    CASE c = "0" -> 0 [] c = "1" -> 1 [] c = "2" -> 2 [] c = "3" -> 3
      [] c = "4" -> 4 [] c = "5" -> 5 [] c = "6" -> 6 [] c = "7" -> 7
      [] c = "8" -> 8 [] c = "9" -> 9

RECURSIVE ParseInt(_)
ParseInt(cs) ==
    IF cs = <<>> THEN 0
    ELSE ParseInt(SubSeq(cs, 1, Len(cs) - 1)) * 10 + DigitVal(cs[Len(cs)])

NoPid == -1

PpidPrefix == <<"p", "p", "i", "d", "-">>

\* RECURSIVE helper: the longest prefix of cs made of digits
RECURSIVE DigitPrefix(_)
DigitPrefix(cs) ==
    IF cs = <<>> \/ cs[1] \notin Digits THEN <<>>
    ELSE <<cs[1]>> \o DigitPrefix(Tail(cs))

\* variant of extractPid whose pattern lacks the end anchor, /^ppid-(\d+)/:
\* an id that only starts like ppid-<digits> yields a pid
ExtractPidUnanchored(id) ==
    LET cs == IdChars(id)
        n == Len(PpidPrefix)
        ds == IF Len(cs) > n /\ SubSeq(cs, 1, n) = PpidPrefix
              THEN DigitPrefix(SubSeq(cs, n + 1, Len(cs)))
              ELSE <<>>
    IN  IF ds # <<>> THEN ParseInt(ds) ELSE NoPid

\* sessionId.match(/^ppid-(\d+)$/) ? parseInt(match[1], 10) : null
ExtractPid(id) ==
    LET cs == IdChars(id)
        n == Len(PpidPrefix)
    IN  IF /\ Len(cs) > n
           /\ SubSeq(cs, 1, n) = PpidPrefix
           /\ \A i \in (n + 1)..Len(cs) : cs[i] \in Digits
        THEN ParseInt(SubSeq(cs, n + 1, Len(cs)))
        ELSE NoPid

\* the agent processes of the three sessions
AgentPids == {100, 200, 300}

----------------------------------------------------------------------------
(* What each producer (hook script of one agent process) knows *)

SessCwd(id) ==
    CASE id = "ppid-100" -> "/c" [] id = "ppid-200" -> "/a/b" [] OTHER -> "/a"

\* terminalPid and vscodeIpcHandle are written only when the producer could
\* obtain them (EXTRA_FIELDS); the legacy script writes neither
SessTerminalPid(id) ==
    CASE id = "ppid-100" -> 101 [] id = "ppid-200" -> AbsentN [] OTHER -> 701

\* VSCODE_GIT_IPC_HANDLE in the terminal of the session: "hA" in the terminals
\* of window w1, "hB" in those of window w2
SessHandle(id) ==
    CASE id = "ppid-100" -> "hB" [] id = "ppid-200" -> AbsentS [] OTHER -> "hA"

\* the pid of the agent process that runs the hooks of session id
SessProcess(id) ==
    CASE id = "ppid-100" -> 100 [] id = "ppid-200" -> 200 [] OTHER -> 300

----------------------------------------------------------------------------
(* Paths as the character sequences String.startsWith sees *)

PathChars(p) ==
    CASE p = "/a"   -> <<"/", "a">>
      [] p = "/a/b" -> <<"/", "a", "/", "b">>
      [] p = "/ab"  -> <<"/", "a", "b">>
      [] p = "/A"   -> <<"/", "A">>
      [] p = "/c"   -> <<"/", "c">>
      [] p = "/a/"  -> <<"/", "a", "/">>
      [] OTHER      -> <<>>

\* String.prototype.startsWith
StartsWith(s, prefix) ==
    /\ Len(prefix) <= Len(s)
    /\ SubSeq(s, 1, Len(prefix)) = prefix

ToLowerChar(c) ==
    CASE c = "A" -> "a" [] c = "B" -> "b" [] c = "C" -> "c"
      [] c = "J" -> "j" [] c = "S" -> "s" [] c = "O" -> "o" [] c = "N" -> "n"
      [] OTHER -> c

\* String.prototype.toLowerCase
ToLower(s) == [i \in 1..Len(s) |-> ToLowerChar(s[i])]

\* cwd.replace(/\\\\/g, '\\'): every pair of backslashes becomes one
RECURSIVE UnescapeBackslashes(_)
UnescapeBackslashes(s) ==
    IF Len(s) < 2 THEN s
    ELSE IF s[1] = "\\" /\ s[2] = "\\"
         THEN <<"\\">> \o UnescapeBackslashes(SubSeq(s, 3, Len(s)))
         ELSE <<s[1]>> \o UnescapeBackslashes(SubSeq(s, 2, Len(s)))

\* path.resolve of an absolute path: a trailing separator is dropped
PathResolve(s) ==
    IF Len(s) > 1 /\ s[Len(s)] = "/" THEN SubSeq(s, 1, Len(s) - 1) ELSE s

----------------------------------------------------------------------------
(* Session records and their JSON text *)

SecMs == 1000

\* interface Session, with the optional fields the producers add
Rec(id, status, reason, cwd, lastUpdate, terminalPid, handle) ==
    [id |-> id, status |-> status, reason |-> reason, cwd |-> cwd,
     lastUpdate |-> lastUpdate, terminalPid |-> terminalPid,
     vscodeIpcHandle |-> handle]

\* variant of the serialiser that writes an undefined string as "" (as
\* `value ?? ''` would) instead of leaving the key out
DropUndefSAsEmpty(v) == IF v = UndefinedS THEN "" ELSE v

DropUndefS(v) == IF v = UndefinedS THEN AbsentS ELSE v
DropUndefN(v) == IF v = UndefinedN THEN AbsentN ELSE v

\* JSON.stringify(session): a key whose value is undefined is left out
JsonStringify(o) ==
    Rec(DropUndefS(o.id), DropUndefS(o.status), DropUndefS(o.reason),
        DropUndefS(o.cwd), DropUndefN(o.lastUpdate),
        DropUndefN(o.terminalPid), DropUndefS(o.vscodeIpcHandle))

\* JSON.parse(content): the object the text denotes; throws on other content
ParseThrows(f) == f.kind # "json"
JsonParse(f) == f.obj

\* truthiness of a string-valued field (session.id && session.status)
Truthy(v) == v \notin {AbsentS, UndefinedS, ""}

\* TIMESTAMP=$(date -u +"%Y-%m-%dT%H:%M:%SZ") (notify.sh), and on Windows the
\* local time printed with a literal Z (Get-Date -Format
\* 'yyyy-MM-ddTHH:mm:ssZ'): whole seconds, read back by new Date(lastUpdate)
\* as a UTC instant. The script reads the clock before it writes the file, so
\* the instant it prints is at least a millisecond older than the write.
ProducerStamp ==
    LET printed == IF platform = "win32" THEN now - 1 + tzOffset ELSE now - 1
    IN  (printed \div SecMs) * SecMs

\* new Date().toISOString()
WindowStamp == now

----------------------------------------------------------------------------
(* Producers: the hook script of an agent process *)

HookCanRun(id) == SessProcess(id) \in alive

\* mkdir -p "$SESSIONS_DIR", then "> $SESSION_FILE": the shell truncates the
\* file before the text is written
ProducerTruncate(id) ==
    /\ HookCanRun(id)
    /\ disk[id] # Truncated
    /\ disk' = [disk EXCEPT ![id] = Truncated]
    /\ dir' = TRUE
    /\ lastOp' = [op |-> "env"]
    /\ UNCHANGED <<now, platform, tzOffset, alive, reg, roots, clean>>
    /\ UNCHANGED <<focusVars, auxVars>>

ProducerRecord(id, status, reason) ==
    Rec(id, status, reason, SessCwd(id), ProducerStamp,
        SessTerminalPid(id), SessHandle(id))

ProducerWrite(id, status, reason) ==
    /\ HookCanRun(id)
    /\ disk' = [disk EXCEPT ![id] = JsonFile(ProducerRecord(id, status, reason))]
    /\ dir' = TRUE
    /\ lastOp' = [op |-> "env"]
    /\ UNCHANGED <<now, platform, tzOffset, alive, reg, roots, clean>>
    /\ UNCHANGED <<focusVars, auxVars>>

\* start)
ProducerStart(id) == ProducerWrite(id, "running", AbsentS)

\* the second argument of the hook script: not given, or given empty (the
\* installed hook command passes none)
HookReasonArgs == {AbsentS, ""}

\* the reason written as it is given
ReasonAsGiven(arg) == arg

\* REASON="${2:-permission_prompt}": the default replaces an unset and an
\* empty argument
HookReason(arg) ==
    IF arg \in {AbsentS, ""} THEN "permission_prompt" ELSE arg

\* attention)
ProducerAttention(id) ==
    \E arg \in HookReasonArgs : ProducerWrite(id, "attention", HookReason(arg))

\* idle)
ProducerIdle(id) == ProducerWrite(id, "idle", AbsentS)

\* end) rm -f "$SESSION_FILE"
ProducerEnd(id) ==
    /\ HookCanRun(id)
    /\ disk[id] # NoFile
    /\ disk' = [disk EXCEPT ![id] = NoFile]
    /\ lastOp' = [op |-> "env"]
    /\ UNCHANGED <<now, platform, tzOffset, alive, reg, roots, clean>>
    /\ UNCHANGED focusVars
    /\ UNCHANGED extVars

\* the agent process exits (with or without its SessionEnd hook having run)
ProcessExit(pid) ==
    /\ pid \in alive
    /\ alive' = alive \ {pid}
    /\ lastOp' = [op |-> "env"]
    /\ UNCHANGED <<now, platform, tzOffset, disk, reg, roots, clean>>
    /\ UNCHANGED focusVars
    /\ UNCHANGED extVars

----------------------------------------------------------------------------
(* TerminalTracker and the listeners that keep it, in window w1 *)

Terminals == {"t1", "t2"}
NoTerminal == "<none>"

\* sessionToTerminal and terminalToSession, both empty
NoAffinity ==
    [sessionToTerminal |-> [id \in SessionIds |-> NoTerminal],
     terminalToSession |-> [t \in Terminals |-> AbsentS]]

\* variant of associate that only sets the two entries
AssociateSetsOnly(tr, sessionId, terminal) ==
    [sessionToTerminal |-> [tr.sessionToTerminal EXCEPT ![sessionId] = terminal],
     terminalToSession |-> [tr.terminalToSession EXCEPT ![terminal] = sessionId]]

\* associate(sessionId, terminal)
Associate(tr, sessionId, terminal) ==
    LET oldSessionId == tr.terminalToSession[terminal]
        s1 == IF oldSessionId # AbsentS
              THEN [tr.sessionToTerminal EXCEPT ![oldSessionId] = NoTerminal]
              ELSE tr.sessionToTerminal
        oldTerminal == s1[sessionId]
        t1 == IF oldTerminal # NoTerminal
              THEN [tr.terminalToSession EXCEPT ![oldTerminal] = AbsentS]
              ELSE tr.terminalToSession
    IN  [sessionToTerminal |-> [s1 EXCEPT ![sessionId] = terminal],
         terminalToSession |-> [t1 EXCEPT ![terminal] = sessionId]]

\* removeSession(sessionId)
RemoveSession(tr, sessionId) ==
    LET terminal == tr.sessionToTerminal[sessionId]
    IN  [sessionToTerminal |->
             [tr.sessionToTerminal EXCEPT ![sessionId] = NoTerminal],
         terminalToSession |->
             IF terminal # NoTerminal
             THEN [tr.terminalToSession EXCEPT ![terminal] = AbsentS]
             ELSE tr.terminalToSession]

\* removeTerminal(terminal)
RemoveTerminal(tr, terminal) ==
    LET sessionId == tr.terminalToSession[terminal]
    IN  [sessionToTerminal |->
             IF sessionId # AbsentS
             THEN [tr.sessionToTerminal EXCEPT ![sessionId] = NoTerminal]
             ELSE tr.sessionToTerminal,
         terminalToSession |->
             [tr.terminalToSession EXCEPT ![terminal] = AbsentS]]

\* sessionChangeListener: every associated session id that the registry r
\* no longer holds loses its association
RECURSIVE SessionChangeListener(_, _, _)
SessionChangeListener(tr, r, i) ==
    IF i > Len(IdOrder) THEN tr
    ELSE LET sessionId == IdOrder[i]
         IN  IF /\ tr.sessionToTerminal[sessionId] # NoTerminal
                /\ r[sessionId] = NoSession
             THEN SessionChangeListener(RemoveSession(tr, sessionId), r, i + 1)
             ELSE SessionChangeListener(tr, r, i + 1)

\* this._onDidChange.fire() of the session manager of window w, if the step
\* got as far as firing it: the listener sees the registry the step leaves
ListenerRan(w, fired) ==
    tracker' = IF w = RegWindow /\ fired
               THEN SessionChangeListener(tracker, reg'[w], 1)
               ELSE tracker

----------------------------------------------------------------------------
(* SessionManager *)

EmptyRegistry == [id \in SessionIds |-> NoSession]

\* the for loop of loadSessions over the files, in directory order: a file
\* that cannot be parsed is skipped, a parsed object with id and status is
\* stored under its own id
RECURSIVE LoadFiles(_, _, _)
LoadFiles(d, i, acc) ==
    IF i > Len(IdOrder) THEN acc
    ELSE LET f == d[IdOrder[i]]
         IN  IF ParseThrows(f) THEN LoadFiles(d, i + 1, acc)
             ELSE LET session == JsonParse(f)
                  IN  IF Truthy(session.id) /\ Truthy(session.status)
                             /\ session.id \in SessionIds
                      THEN LoadFiles(d, i + 1,
                                     [acc EXCEPT ![session.id] = session])
                      ELSE LoadFiles(d, i + 1, acc)

\* variant of loadSessions without this.sessions.clear(): the loop adds to
\* what the registry of the window already holds
LoadedWithoutClear(d) == LoadFiles(d, 1, reg["w1"])

\* variant of loadSessions without the try/catch around one file: the first
\* file that cannot be parsed throws into the outer catch, which clears
LoadedAbortOnError(d) ==
    IF \E id \in SessionIds : d[id] # NoFile /\ ParseThrows(d[id])
    THEN EmptyRegistry
    ELSE LoadFiles(d, 1, EmptyRegistry)

\* this.sessions.clear(), then the loop
Loaded(d) == LoadFiles(d, 1, EmptyRegistry)

\* variant of loadSessions that tests for the directory before it clears
LoadedDirUncleared(exists, d) == IF exists THEN Loaded(d) ELSE reg["w1"]

\* the body of loadSessions: this.sessions.clear(); without the directory,
\* mkdirSync and return; with it, the loop over its files
LoadedDir(exists, d) == IF exists THEN Loaded(d) ELSE EmptyRegistry

\* loadSessions(); mkdir tells whether it had to create the directory
LoadSessions(w) ==
    /\ reg' = [reg EXCEPT ![w] = LoadedDir(dir, disk)]
    /\ dir' = TRUE
    /\ lastOp' = [op |-> "loadSessions", w |-> w,
                  had |-> {id \in SessionIds : reg[w][id] # NoSession},
                  mkdir |-> ~dir]
    /\ ListenerRan(w, TRUE)
    /\ UNCHANGED <<now, platform, tzOffset, alive, disk, roots, clean>>
    /\ UNCHANGED <<focusVars, watch, loads, chainVars, polling, termRest>>

\* the unlink loop of removeSessions
Unlinked(d, ids) ==
    [id \in SessionIds |-> IF id \in ids THEN NoFile ELSE d[id]]

\* updateSessionStatus(sessionId, status)
Updated(session, status) ==
    [session EXCEPT !.status = status, !.reason = UndefinedS,
                    !.lastUpdate = WindowStamp]

\* the write and the reload of updateSessionStatus; without the directory
\* writeFileSync throws, after the record in the registry has been changed
StatusWrite(w, id, status) ==
    IF dir
    THEN /\ disk' = [disk EXCEPT
                  ![id] = JsonFile(JsonStringify(Updated(reg[w][id], status)))]
         /\ reg' = [reg EXCEPT ![w] = LoadedDir(dir, disk')]
    ELSE /\ disk' = disk
         /\ reg' = [reg EXCEPT ![w][id] = Updated(reg[w][id], status)]

UpdateSessionStatus(w, id, status) ==
    LET session == reg[w][id]
    IN  /\ session # NoSession
        /\ StatusWrite(w, id, status)
        /\ lastOp' = [op |-> "updateSessionStatus", w |-> w, id |-> id,
                      prev |-> session,
                      written |-> Updated(session, status),
                      threw |-> ~dir]
        /\ ListenerRan(w, dir)
        /\ UNCHANGED <<now, platform, tzOffset, alive, roots, clean>>
        /\ UNCHANGED <<focusVars, dir, watch, loads, chainVars, polling, termRest>>

\* clearAttentionIfNeeded(session) on the registry's record of the session
ClearAttention(w, id) ==
    /\ reg[w][id] # NoSession
    /\ reg[w][id].status = "attention"
    /\ UpdateSessionStatus(w, id, "running")

\* removeClaudeHooks(): fs.rmSync of the claude-attn directory, with the
\* sessions directory, its files and the focus request file in it
RemoveClaudeHooks ==
    /\ dir
    /\ dir' = FALSE
    /\ disk' = [id \in SessionIds |-> NoFile]
    /\ focusFile' = NoFile
    /\ lastOp' = [op |-> "env"]
    /\ UNCHANGED <<now, platform, tzOffset, alive, reg, roots, clean>>
    /\ UNCHANGED <<writes, ipc, acted, exposed, replaced, auxVars>>

\* getAllSessions(): the records in Map order
RECURSIVE AllFrom(_, _)
AllFrom(r, i) ==
    IF i > Len(IdOrder) THEN <<>>
    ELSE IF r[IdOrder[i]] = NoSession THEN AllFrom(r, i + 1)
         ELSE <<r[IdOrder[i]]>> \o AllFrom(r, i + 1)

GetAllSessions(w) == AllFrom(reg[w], 1)

\* claudeMonitor.filterByWorkspace and claudeMonitor.globalMode: the defaults
FilterByWorkspace == TRUE
GlobalMode == FALSE

\* isSessionInWorkspace(session)
IsSessionInWorkspace(w, session) ==
    /\ Truthy(session.cwd)
    /\ \E i \in 1..Len(roots[w]) :
          StartsWith(PathResolve(PathChars(session.cwd)),
                     PathChars(roots[w][i]))

\* filterByWorkspace(sessions)
FilterSeqByWorkspace(w, sessions) ==
    IF ~FilterByWorkspace THEN sessions
    ELSE LET Keep(x) == IsSessionInWorkspace(w, x)
         IN  SelectSeq(sessions, Keep)

\* Array.prototype.sort with (a, b) => time(b.lastUpdate) - time(a.lastUpdate):
\* stable, most recent first
RECURSIVE InsertByLastUpdate(_, _)
InsertByLastUpdate(sorted, x) ==
    IF sorted = <<>> THEN <<x>>
    ELSE IF Head(sorted).lastUpdate >= x.lastUpdate
         THEN <<Head(sorted)>> \o InsertByLastUpdate(Tail(sorted), x)
         ELSE <<x>> \o sorted

\* the filtered array left in Map iteration order
KeptInMapOrder(xs) == xs

RECURSIVE SortByLastUpdate(_)
SortByLastUpdate(xs) ==
    IF xs = <<>> THEN <<>>
    ELSE InsertByLastUpdate(SortByLastUpdate(SubSeq(xs, 1, Len(xs) - 1)),
                            xs[Len(xs)])

\* getAttentionRequired(), getIdle(), getRunning()
GetByStatus(w, status) ==
    LET Has(x) == x.status = status
    IN  FilterSeqByWorkspace(w,
            SortByLastUpdate(SelectSeq(GetAllSessions(w), Has)))

\* getFilteredSessions(sessionManager) of extension.ts
GetFilteredSessions(w) ==
    IF GlobalMode \/ roots[w] = <<>> THEN GetAllSessions(w)
    ELSE LET Keep(x) ==
                 /\ Truthy(x.cwd)
                 /\ \E i \in 1..Len(roots[w]) :
                       StartsWith(ToLower(UnescapeBackslashes(PathChars(x.cwd))),
                                  ToLower(PathChars(roots[w][i])))
         IN  SelectSeq(GetAllSessions(w), Keep)

\* loadSessions() of the version that keeps all sessions in one file
\* (sessions.json, read through AtomicFileOps.readJson): the call runs up to
\* its await, a read settles with the content of that moment or with an
\* error, and the call resumes in a later callback of the event loop.

PendingRead == [kind |-> "pending"]
FailedRead == [kind |-> "error"]

\* the sessions object of the file: the records present at that moment
ReadJson(d) ==
    [kind |-> "data",
     sessions |-> [id \in SessionIds |->
                      IF ParseThrows(d[id]) THEN NoSession
                      ELSE JsonParse(d[id])]]

\* for (const [id, session] of Object.entries(data.sessions))
\*     this.sessions.set(id, session)
RECURSIVE SetEntries(_, _, _)
SetEntries(sessions, i, acc) ==
    IF i > Len(IdOrder) THEN acc
    ELSE LET id == IdOrder[i]
         IN  IF sessions[id] = NoSession THEN SetEntries(sessions, i + 1, acc)
             ELSE SetEntries(sessions, i + 1,
                             [acc EXCEPT ![id] = sessions[id]])

\* variant of loadSessions with this.sessions.clear() before the await
BeforeAwaitCleared(m) == EmptyRegistry

\* the part of loadSessions before the await leaves the map alone
BeforeAwait(m) == m

\* the part of loadSessions after the await: clear and set every entry, or
\* the catch block, which clears
AfterAwait(r) ==
    IF r.kind = "error" THEN EmptyRegistry
    ELSE SetEntries(r.sessions, 1, EmptyRegistry)

\* loadSessions() up to const data = await this.fileOps.readJson()
LoadSessionsCall(w) ==
    /\ Len(loads[w]) < MaxLoads
    /\ loads' = [loads EXCEPT ![w] = Append(@, PendingRead)]
    /\ reg' = [reg EXCEPT ![w] = BeforeAwait(@)]
    /\ lastOp' = [op |-> "env"]
    /\ UNCHANGED <<now, platform, tzOffset, alive, disk, roots, clean>>
    /\ UNCHANGED <<focusVars, dir, watch, chainVars, polling, termVars>>

\* the read of the k-th waiting call settles
ReadJsonSettles(w, k, ok) ==
    /\ k \in 1..Len(loads[w])
    /\ loads[w][k] = PendingRead
    /\ loads' = [loads EXCEPT ![w][k] = IF ok THEN ReadJson(disk)
                                        ELSE FailedRead]
    /\ lastOp' = [op |-> "env"]
    /\ UNCHANGED <<storeVars, focusVars, dir, watch, chainVars, polling, termVars>>

\* the k-th waiting call resumes after its await and runs to its end,
\* this._onDidChange.fire() included
LoadSessionsResume(w, k) ==
    /\ k \in 1..Len(loads[w])
    /\ loads[w][k] # PendingRead
    /\ reg' = [reg EXCEPT ![w] = AfterAwait(loads[w][k])]
    /\ loads' = [loads EXCEPT ![w] =
                    SubSeq(@, 1, k - 1) \o SubSeq(@, k + 1, Len(@))]
    /\ lastOp' = [op |-> "loadSessions", w |-> w,
                  had |-> {id \in SessionIds : reg[w][id] # NoSession},
                  mkdir |-> FALSE]
    /\ ListenerRan(w, TRUE)
    /\ UNCHANGED <<now, platform, tzOffset, alive, disk, roots, clean>>
    /\ UNCHANGED <<focusVars, dir, watch, chainVars, polling, termRest>>

----------------------------------------------------------------------------
(* SessionCleaner *)

CleanIdle == [pc |-> "idle", sessions |-> <<>>, toCheck |-> <<>>]

\* the first loop of cleanupNow: the sessions with an extractable pid
RECURSIVE PidsToCheck(_)
PidsToCheck(sessions) ==
    IF sessions = <<>> THEN <<>>
    ELSE LET pid == ExtractPid(Head(sessions).id)
         IN  IF pid # NoPid
             THEN <<[sessionId |-> Head(sessions).id, pid |-> pid]>>
                      \o PidsToCheck(Tail(sessions))
             ELSE PidsToCheck(Tail(sessions))

\* cleanupNow() up to the await of checkPidsAlive; with nothing to check it
\* returns at once
CleanupBegin(w) ==
    /\ clean[w].pc = "idle"
    /\ LET sessions == GetAllSessions(w)
           toCheck == PidsToCheck(sessions)
       IN  IF toCheck = <<>>
           THEN /\ clean' = clean
                /\ lastOp' = [op |-> "cleanupNow", w |-> w, probe |-> "none",
                              sessions |-> sessions, reported |-> {},
                              unlinked |-> {},
                              result |-> [removedCount |-> 0,
                                          removedIds |-> <<>>]]
           ELSE /\ clean' = [clean EXCEPT ![w] =
                               [pc |-> "probing", sessions |-> sessions,
                                toCheck |-> toCheck]]
                /\ lastOp' = [op |-> "cleanupBegin", w |-> w]
    /\ UNCHANGED <<now, platform, tzOffset, alive, disk, reg, roots>>
    /\ UNCHANGED focusVars
    /\ UNCHANGED extVars

\* checkPidsAlive(pids): process.kill(pid, 0) per pid on Unix; on Windows one
\* PowerShell query, and when that fails (error, timeout) the empty set
CheckPidsAlive(pids, queryOk) ==
    IF platform = "win32" /\ ~queryOk THEN {}
    ELSE {pid \in pids : pid \in alive}

\* the second loop of cleanupNow: the sessions whose pid is not in alivePids
DeadSessionIds(toCheck, alivePids) ==
    LET Dead(x) == x.pid \notin alivePids
        dead == SelectSeq(toCheck, Dead)
    IN  [i \in 1..Len(dead) |-> dead[i].sessionId]

SeqRange(xs) == {xs[i] : i \in 1..Len(xs)}

\* cleanupNow() from the probe's answer on: removeSessions(dead), the result
CleanupFinish(w, queryOk) ==
    /\ clean[w].pc = "probing"
    /\ platform = "unix" => queryOk
    /\ LET toCheck == clean[w].toCheck
           pids == {toCheck[i].pid : i \in 1..Len(toCheck)}
           alivePids == CheckPidsAlive(pids, queryOk)
           dead == DeadSessionIds(toCheck, alivePids)
       IN  /\ IF dead # <<>>
              THEN /\ disk' = Unlinked(disk, SeqRange(dead))
                   /\ reg' = [reg EXCEPT ![w] = LoadedDir(dir, disk')]
                   /\ dir' = TRUE
                   /\ ListenerRan(w, TRUE)
              ELSE UNCHANGED <<disk, reg, dir, tracker>>
           /\ lastOp' = [op |-> "cleanupNow", w |-> w,
                         probe |-> IF queryOk THEN "ok" ELSE "failed",
                         sessions |-> clean[w].sessions,
                         reported |-> alivePids,
                         unlinked |-> {id \in SeqRange(dead) : disk[id] # NoFile},
                         result |-> [removedCount |-> Len(dead),
                                     removedIds |-> dead]]
    /\ clean' = [clean EXCEPT ![w] = CleanIdle]
    /\ UNCHANGED <<now, platform, tzOffset, alive, roots>>
    /\ UNCHANGED <<focusVars, watch, loads, chainVars, polling, termRest>>

----------------------------------------------------------------------------
(* CrossWindowIpc: fields of a window that polls the shared request file *)

\* the request a window holds while it is not in a poll
NoRequest ==
    [seq |-> 0, sessionId |-> AbsentS, cwd |-> AbsentS,
     vscodeIpcHandle |-> AbsentS, timestamp |-> 0]

\* lastMtime = 0, _learnedIpcHandle undefined, no poll in progress
IpcIdle ==
    [pc |-> "idle", lastMtime |-> 0, learned |-> UndefinedS,
     request |-> NoRequest, unlink |-> "none"]

\* the longest age, in milliseconds, at which a request is still handled
StaleMs == 5000

\* isCwdInCurrentWorkspace(cwd)
IsCwdInCurrentWorkspace(w, cwd) ==
    /\ roots[w] # <<>>
    /\ LET normalizedCwd == ToLower(UnescapeBackslashes(PathChars(cwd)))
       IN  \E i \in 1..Len(roots[w]) :
              LET folderPath == ToLower(PathChars(roots[w][i]))
              IN  \/ StartsWith(normalizedCwd, folderPath)
                  \/ StartsWith(folderPath, normalizedCwd)

\* the for loop of learnIpcHandleFromSessions: the handle of the first session
\* that has one and whose cwd (or '' without a cwd) is in the workspace
RECURSIVE LearnedFrom(_, _, _)
LearnedFrom(w, sessions, learned) ==
    IF sessions = <<>> THEN learned
    ELSE LET session == Head(sessions)
             cwd == IF Truthy(session.cwd) THEN session.cwd ELSE ""
         IN  IF Truthy(session.vscodeIpcHandle)
                    /\ IsCwdInCurrentWorkspace(w, cwd)
             THEN session.vscodeIpcHandle
             ELSE LearnedFrom(w, Tail(sessions), learned)

\* learnIpcHandleFromSessions(sessions), called with the sessions of the
\* registry; it runs between two polls of the window
LearnIpcHandleFromSessions(w) ==
    /\ ipc[w].pc = "idle"
    /\ LET learned == LearnedFrom(w, GetAllSessions(w), ipc[w].learned)
       IN  /\ learned # ipc[w].learned
           /\ ipc' = [ipc EXCEPT ![w].learned = learned]
    /\ lastOp' = [op |-> "env"]
    /\ UNCHANGED <<storeVars, focusFile, writes, acted, exposed, replaced>>
    /\ UNCHANGED extVars

\* JSON.stringify(request) of writeFocusRequest; seq numbers the writes for
\* the history variables and is not in the file
RequestOf(session, seq) ==
    [seq |-> seq, sessionId |-> session.id, cwd |-> session.cwd,
     vscodeIpcHandle |-> DropUndefS(session.vscodeIpcHandle),
     timestamp |-> now]

\* switchToWindow(session) up to the return of writeFocusRequest: the file is
\* overwritten; stat.mtimeMs of every write is larger than the one before
\* the requests that have been overwritten, once the file that holds
\* request file.obj is opened for writing
Overwritten(file) ==
    IF file.kind = "json" THEN replaced \cup {file.obj.seq} ELSE replaced

SwitchToWindow(w, id) ==
    /\ ipc[w].pc = "idle"
    /\ reg[w][id] # NoSession
    /\ writes' = writes + 1
    /\ focusFile' = [kind |-> "json", obj |-> RequestOf(reg[w][id], writes'),
                     mtime |-> writes']
    /\ replaced' = Overwritten(focusFile)
    /\ lastOp' = [op |-> "env"]
    /\ UNCHANGED <<storeVars, ipc, acted, exposed>>
    /\ UNCHANGED extVars

\* pollingInterval = null after construction, written 0; starts counts the
\* calls of setInterval, whose handles are numbered from 1 by it; intervals
\* are the handles that have been set and not cleared
NoPolling == [pollingInterval |-> 0, intervals |-> {}, starts |-> 0]

\* a window after one call of startPolling
OncePolling == [pollingInterval |-> 1, intervals |-> {1}, starts |-> 1]

\* startPolling(sessionManager): this.pollingInterval = setInterval(...); the
\* check it makes first is the first of the polls that follow
StartPolling(w) ==
    /\ ipc[w].pc = "idle"
    /\ polling[w].starts < MaxStarts
    /\ LET handle == polling[w].starts + 1
       IN  polling' = [polling EXCEPT ![w] =
               [pollingInterval |-> handle,
                intervals |-> polling[w].intervals \cup {handle},
                starts |-> handle]]
    /\ lastOp' = [op |-> "startPolling", w |-> w]
    /\ UNCHANGED <<storeVars, focusVars, dir, watch, loads, termVars, chainVars>>

\* stopPolling(): clearInterval(this.pollingInterval) if it is set
StopPolling(w) ==
    /\ ipc[w].pc = "idle"
    /\ polling' = [polling EXCEPT ![w] =
           IF polling[w].pollingInterval # 0
           THEN [polling[w] EXCEPT
                    !.intervals = @ \ {polling[w].pollingInterval},
                    !.pollingInterval = 0]
           ELSE polling[w]]
    /\ lastOp' = [op |-> "stopPolling", w |-> w]
    /\ UNCHANGED <<storeVars, focusVars, dir, watch, loads, termVars, chainVars>>

\* dispose(): this.stopPolling()
Dispose(w) == StopPolling(w)

\* the end of a poll: the locals are gone, lastMtime and the handle stay
PollReturns(w) ==
    /\ ipc' = [ipc EXCEPT ![w].pc = "idle", ![w].request = NoRequest,
                          ![w].unlink = "none"]
    /\ lastOp' = [op |-> "env"]

\* the request file between the open (which truncates it) and the write of
\* the k-th fs.writeFileSync: it exists and JSON.parse throws on its content;
\* its stat.mtimeMs differs from every other one (mtimes are only compared
\* for equality)
OpenedFocusFile(k) == [kind |-> "trunc", mtime |-> 0 - k]

\* switchToWindow(session) up to the open of the file in writeFocusRequest
WriteFocusRequestOpen(w) ==
    /\ ipc[w].pc = "idle"
    /\ \E id \in SessionIds : reg[w][id] # NoSession
    /\ focusFile.kind # "trunc"
    /\ focusFile' = OpenedFocusFile(writes + 1)
    /\ replaced' = Overwritten(focusFile)
    /\ lastOp' = [op |-> "env"]
    /\ UNCHANGED <<storeVars, writes, ipc, acted, exposed>>
    /\ UNCHANGED extVars

\* switchToWindow(session) when mkdirSync or writeFileSync in
\* writeFocusRequest throws (the directory removed by another window's
\* removeClaudeHooks after the existsSync test, EACCES, ENOSPC): neither
\* writeFocusRequest nor switchToWindow has a try around the call, nothing is
\* written and the promise switchToWindow returned rejects
WriteFocusRequestThrows(w) ==
    /\ ipc[w].pc = "idle"
    /\ \E id \in SessionIds : reg[w][id] # NoSession
    /\ lastOp' = [op |-> "switchToWindow", threw |-> TRUE]
    /\ UNCHANGED <<storeVars, focusVars>>
    /\ UNCHANGED extVars

\* variant of the catch of checkForFocusRequest that removes a file it could
\* not read or parse
AfterFailedReadUnlinked(file) == NoFile

\* the catch of checkForFocusRequest: the file is left as it is
AfterFailedRead(file) == file

\* the poll ends in the catch of checkForFocusRequest (found: "missing",
\* "unreadable" or "malformed")
PollCatches(w, found) ==
    /\ ipc' = [ipc EXCEPT ![w].pc = "idle", ![w].request = NoRequest,
                          ![w].unlink = "none"]
    /\ focusFile' = AfterFailedRead(focusFile)
    /\ lastOp' = [op |-> "poll", found |-> found]

\* checkForFocusRequest(): statSync and the comparison with lastMtime;
\* statSync throws when the file is not there
PollStat(w) ==
    /\ polling[w].intervals # {}
    /\ ipc[w].pc = "idle"
    /\ IF focusFile = NoFile
       THEN PollCatches(w, "missing")
       ELSE /\ focusFile' = focusFile
            /\ IF focusFile.mtime = ipc[w].lastMtime
               THEN PollReturns(w)
               ELSE /\ ipc' = [ipc EXCEPT ![w].pc = "stat",
                                          ![w].lastMtime = focusFile.mtime]
                    /\ lastOp' = [op |-> "env"]
    /\ UNCHANGED <<storeVars, writes, acted, exposed, replaced>>
    /\ UNCHANGED extVars

\* readFileSync and JSON.parse; a file that is gone or cannot be read
\* (readOk) and a content that is no JSON text throw into the catch
PollRead(w, readOk) ==
    /\ ipc[w].pc = "stat"
    /\ IF focusFile = NoFile
       THEN PollCatches(w, "missing")
       ELSE IF ~readOk
            THEN PollCatches(w, "unreadable")
            ELSE IF ParseThrows(focusFile)
                 THEN PollCatches(w, "malformed")
                 ELSE /\ ipc' = [ipc EXCEPT ![w].pc = "read",
                                            ![w].request = JsonParse(focusFile)]
                      /\ focusFile' = focusFile
                      /\ lastOp' = [op |-> "env"]
    /\ UNCHANGED <<storeVars, writes, acted, exposed, replaced>>
    /\ UNCHANGED extVars

\* variant of the staleness test that lets every request through
IsStaleNever(request) == FALSE

\* Date.now() - request.timestamp > 5000
IsStale(request) == now - request.timestamp > StaleMs

\* variant of the target selection that looks at the cwd only
IsForThisWindowByCwd(w, request) == IsCwdInCurrentWorkspace(w, request.cwd)

\* the target selection of checkForFocusRequest: both handles there, they
\* must be equal; otherwise the cwd decides
IsForThisWindow(w, request) ==
    IF Truthy(request.vscodeIpcHandle) /\ Truthy(ipc[w].learned)
    THEN request.vscodeIpcHandle = ipc[w].learned
    ELSE IsCwdInCurrentWorkspace(w, request.cwd)

\* variant of the claim that acts first and deletes the file afterwards
ClaimStepsActFirst == <<"handle", "unlink">>

\* what a window does once it has claimed a request, in this order
ClaimSteps == <<"unlink", "handle">>

\* the pc of a window about to do the i-th step of a claim
ClaimPc(i) == IF i = 1 THEN "claim1" ELSE "claim2"

\* the pc after the i-th step of a claim
AfterClaimStep(i) == IF i < Len(ClaimSteps) THEN ClaimPc(i + 1) ELSE "idle"

\* the staleness test and the target selection
PollCheck(w) ==
    /\ ipc[w].pc = "read"
    /\ IF IsStale(ipc[w].request)
       THEN PollReturns(w)
       ELSE IF ~IsForThisWindow(w, ipc[w].request)
            THEN PollReturns(w)
            ELSE /\ ipc' = [ipc EXCEPT ![w].pc = ClaimPc(1)]
                 /\ lastOp' = [op |-> "env"]
    /\ UNCHANGED <<storeVars, focusFile, writes, acted, exposed, replaced>>
    /\ UNCHANGED extVars

\* variant of the unlink that leaves the file in place and reports success
AfterUnlinkKept(file, ok) == file

\* the request file after unlinkSync: gone, or still there when unlinkSync
\* threw (the catch swallows it)
AfterUnlink(file, ok) == IF ok THEN NoFile ELSE file

\* the windows other than w that have read request seq and have not yet
\* reached the end of their poll
OtherReaders(w, seq) ==
    {v \in Windows \ {w} :
        ipc[v].pc \in {"read", "claim1", "claim2"} /\ ipc[v].request.seq = seq}

\* try { fs.unlinkSync(this.focusRequestFile) } catch {}
PollUnlink(w, i, ok) ==
    /\ ipc[w].pc = ClaimPc(i)
    /\ ClaimSteps[i] = "unlink"
    /\ focusFile' = IF focusFile = NoFile THEN NoFile
                    ELSE AfterUnlink(focusFile, ok)
    /\ LET seq == ipc[w].request.seq
           result == IF focusFile = NoFile THEN "gone"
                     ELSE IF ok THEN "ok" ELSE "failed"
       IN  /\ exposed' = IF result = "failed" \/ OtherReaders(w, seq) # {}
                         THEN exposed \cup {seq} ELSE exposed
           /\ IF AfterClaimStep(i) = "idle"
              THEN PollReturns(w)
              ELSE /\ ipc' = [ipc EXCEPT ![w].pc = AfterClaimStep(i),
                                         ![w].unlink = result]
                   /\ lastOp' = [op |-> "env"]
    /\ UNCHANGED <<storeVars, writes, acted, replaced>>
    /\ UNCHANGED extVars

\* handleFocusRequest(request), run to its end: the session is looked up in
\* the registry; if it is there the window comes to the foreground (win32),
\* the terminal is shown and focused when one is found (canFocus), and
\* clearAttentionIfNeeded clears the session's attention
HandleFocusRequest(w, i, canFocus) ==
    /\ ipc[w].pc = ClaimPc(i)
    /\ ClaimSteps[i] = "handle"
    /\ LET request == ipc[w].request
           session == reg[w][request.sessionId]
       IN  IF session = NoSession
           THEN UNCHANGED <<disk, reg, acted, tracker>>
           ELSE /\ acted' = acted \cup
                      {[w |-> w, seq |-> request.seq,
                        stale |-> now - request.timestamp > StaleMs]}
                /\ IF canFocus /\ session.status = "attention"
                   THEN /\ StatusWrite(w, session.id, "running")
                        /\ ListenerRan(w, dir)
                   ELSE UNCHANGED <<disk, reg, tracker>>
    /\ IF AfterClaimStep(i) = "idle"
       THEN PollReturns(w)
       ELSE /\ ipc' = [ipc EXCEPT ![w].pc = AfterClaimStep(i)]
            /\ lastOp' = [op |-> "env"]
    /\ UNCHANGED <<now, platform, tzOffset, alive, roots, clean, focusFile,
                   writes, exposed, replaced>>
    /\ UNCHANGED <<dir, watch, loads, chainVars, polling, termRest>>

----------------------------------------------------------------------------
(* FSWatcher in directory mode on the sessions directory *)

\* debounceMs of a directory watcher and the delay of restartWatcher
DebounceMs == 50
RestartMs == 1000

\* no timer (null), no event yet
NoTimer == -1

\* the fields after construction: watcher null, debounceTimer null; timers is
\* the set of the deadlines of the debounce timeouts that are pending,
\* restart the deadline of the pending restart timeout; lastEvent, many,
\* fired and errors are history: the time of the last handled event, whether
\* its burst has more than one event, the signals since the burst began and
\* the errors of the OS watch so far
WatchIdle ==
    [started |-> FALSE, watcher |-> "none", debounceTimer |-> NoTimer,
     timers |-> {}, restart |-> NoTimer, lastEvent |-> NoTimer,
     many |-> FALSE, fired |-> 0, errors |-> 0]

\* the filenames fs.watch reports; NoName is null
NoName == "<null>"
WatchNames == {"a.json", "b.JSON", "a.tmp", NoName}

NameChars(name) ==
    CASE name = "a.json" -> <<"a", ".", "j", "s", "o", "n">>
      [] name = "b.JSON" -> <<"b", ".", "J", "S", "O", "N">>
      [] name = "a.tmp"  -> <<"a", ".", "t", "m", "p">>
      [] OTHER           -> <<>>

\* fileFilter of createDirectoryWatcher
FileFilter == <<".", "j", "s", "o", "n">>

\* String.prototype.endsWith
EndsWith(s, suffix) ==
    /\ Len(suffix) <= Len(s)
    /\ SubSeq(s, Len(s) - Len(suffix) + 1, Len(s)) = suffix

\* shouldHandleChange(filename) in directory mode
ShouldHandleChange(filename) ==
    /\ filename # NoName
    /\ EndsWith(ToLower(NameChars(filename)), ToLower(FileFilter))

\* setupWatcher(): fs.watch gives a watcher, or throws into the catch, which
\* leaves this.watcher as it was; fs.watch throws without the directory
SetupWatcher(w, ok) == IF ok THEN [w EXCEPT !.watcher = "armed"] ELSE w

\* start(): ensureDirectoryExists(), setupWatcher()
WatchStart(ok) ==
    /\ ~watch.started
    /\ dir' = TRUE
    /\ watch' = SetupWatcher([watch EXCEPT !.started = TRUE], ok)
    /\ lastOp' = [op |-> "env"]
    /\ UNCHANGED <<storeVars, focusVars, loads, chainVars, polling, termVars>>

\* stop(): the debounce timeout is cleared and the watcher closed; the
\* restart timeout is not
WatchStop ==
    /\ watch.started
    /\ watch' = [watch EXCEPT !.started = FALSE, !.watcher = "none",
                              !.timers = @ \ {watch.debounceTimer},
                              !.debounceTimer = NoTimer,
                              !.lastEvent = NoTimer, !.many = FALSE,
                              !.fired = 0]
    /\ lastOp' = [op |-> "env"]
    /\ UNCHANGED <<storeVars, focusVars, dir, loads, chainVars, polling, termVars>>

\* variant of handleChange without clearTimeout: every event adds a timeout
TimersKept(timers, handle) == timers

\* clearTimeout(this.debounceTimer)
TimersCleared(timers, handle) == timers \ {handle}

\* the listener of fs.watch for one event: shouldHandleChange, handleChange
FsEvent(filename) ==
    /\ watch.watcher = "armed"
    /\ IF ShouldHandleChange(filename)
       THEN watch' = [watch EXCEPT
                !.timers = TimersCleared(@, watch.debounceTimer)
                              \cup {now + DebounceMs},
                !.debounceTimer = now + DebounceMs,
                !.lastEvent = now,
                !.many = /\ watch.lastEvent # NoTimer
                         /\ now - watch.lastEvent < DebounceMs,
                !.fired = IF /\ watch.lastEvent # NoTimer
                             /\ now - watch.lastEvent < DebounceMs
                          THEN @ ELSE 0]
       ELSE watch' = watch
    /\ lastOp' = [op |-> "fsEvent", handled |-> ShouldHandleChange(filename)]
    /\ UNCHANGED <<storeVars, focusVars, dir, loads, chainVars, polling, termVars>>

\* a debounce timeout expires: this._onDidChange.fire()
DebounceFire(t) ==
    /\ t \in watch.timers
    /\ now >= t
    /\ watch' = [watch EXCEPT !.timers = @ \ {t}, !.fired = @ + 1]
    /\ lastOp' = [op |-> "signal", lastEvent |-> watch.lastEvent]
    /\ UNCHANGED <<storeVars, focusVars, dir, loads, chainVars, polling, termVars>>

\* the OS watch emits 'error': restartWatcher() closes the watcher and sets
\* the restart timeout
WatchError ==
    /\ watch.watcher = "armed"
    /\ watch.errors < MaxWatchErrors
    /\ watch' = [watch EXCEPT !.watcher = "none",
                              !.restart = now + RestartMs,
                              !.errors = @ + 1]
    /\ lastOp' = [op |-> "env"]
    /\ UNCHANGED <<storeVars, focusVars, dir, loads, chainVars, polling, termVars>>

\* the restart timeout expires: setupWatcher()
RestartFire(ok) ==
    /\ watch.restart # NoTimer
    /\ now >= watch.restart
    /\ ok => dir
    /\ watch' = SetupWatcher([watch EXCEPT !.restart = NoTimer], ok)
    /\ lastOp' = [op |-> "rearm", ok |-> ok]
    /\ UNCHANGED <<storeVars, focusVars, dir, loads, chainVars, polling, termVars>>

----------------------------------------------------------------------------
(* Terminals of window w1 and the terminal part of a focus action *)

\* terminal.processId once the shell of the terminal runs
TermPid(t) == IF t = "t1" THEN 101 ELSE 701

\* the agent of ppid-100 runs in the shell of t1; the agent of ppid-200, whose
\* record has no terminalPid, runs in the shell of t2
ProcessChain(startPid) ==
    CASE startPid = 100 -> <<100, 101>>
      [] startPid = 200 -> <<200, 701>>
      [] OTHER -> <<startPid>>

\* vscode.window.terminals; a terminal is "starting" until its shell process
\* exists, "aborted" if it was closed before that, "closed" if after
OpenTerminals == {t \in Terminals : terminals[t] \in {"starting", "open"}}

NoCache == [kind |-> "null"]
CacheOf(pidMap) == [kind |-> "map", terms |-> pidMap]

\* the loop of getTerminalPidMap over the terminals it was given, once every
\* processId has settled: a terminal closed before its shell ran has
\* processId undefined and is left out; the map is kept as the set of its
\* terminals, the key of each being TermPid
PidMapOf(given) == {t \in given : terminals[t] \in {"open", "closed"}}

\* terminalPids.get(pid)
PidMapGet(pidMap, pid) ==
    IF \E t \in pidMap : TermPid(t) = pid
    THEN CHOOSE t \in pidMap : TermPid(t) = pid
    ELSE NoTerminal

\* the fast path of matchSessionToTerminal: if (session.terminalPid)
FastPath(session, pidMap) ==
    IF session.terminalPid \notin {AbsentN, UndefinedN, 0}
    THEN PidMapGet(pidMap, session.terminalPid)
    ELSE NoTerminal

\* for (const pid of ancestorChain)
RECURSIVE FirstInChain(_, _)
FirstInChain(chain, pidMap) ==
    IF chain = <<>> THEN NoTerminal
    ELSE IF PidMapGet(pidMap, Head(chain)) # NoTerminal
         THEN PidMapGet(pidMap, Head(chain))
         ELSE FirstInChain(Tail(chain), pidMap)

\* what follows a match that returned undefined: focusTerminalForSession
\* (the local path) shows the quick pick; handleFocusRequest shows the
\* terminal if there is exactly one, and is over otherwise
NoMatchPc(rec) ==
    IF rec.local THEN "pick"
    ELSE IF Cardinality(rec.terminals) = 1 THEN "clear" ELSE "done"

\* matchSessionToTerminal once it has the pid map, up to its return or to
\* await getProcessChain; then its caller: a match goes on to associate and
\* show
AfterPidMap(rec, pidMap) ==
    LET fast == FastPath(rec.session, pidMap)
    IN  IF fast # NoTerminal THEN [matched |-> fast, pc |-> "clear"]
        ELSE IF ExtractPid(rec.id) = NoPid
        THEN [matched |-> NoTerminal, pc |-> NoMatchPc(rec)]
        ELSE [matched |-> NoTerminal, pc |-> "chain"]

\* the focus actions that wait, without the k-th
Others(k) == SubSeq(focusing, 1, k - 1) \o SubSeq(focusing, k + 1, Len(focusing))

\* the terminal whose show() is called once the match has returned r: the
\* matched one, or terminals[0] where the caller goes on without a match
Shown(rec, r) ==
    IF r.matched # NoTerminal THEN r.matched
    ELSE IF r.pc = "clear" THEN CHOOSE t \in rec.terminals : TRUE
    ELSE NoTerminal

\* the end of the match of focus action rec: terminalTracker.associate if a
\* terminal was matched; the action waits at its next await or is over
MatchReturns(rest, rec, r, pidMap) ==
    /\ tracker' = IF r.matched # NoTerminal
                  THEN Associate(tracker, rec.id, r.matched)
                  ELSE tracker
    /\ focusing' = IF r.pc = "done" THEN rest
                   ELSE Append(rest, [rec EXCEPT !.pc = r.pc,
                                                 !.pidMap = pidMap])
    /\ lastOp' = IF r.pc = "chain" THEN [op |-> "env"]
                 ELSE [op |-> "match", id |-> rec.id,
                       session |-> rec.session, terminals |-> rec.terminals,
                       matched |-> r.matched, had |-> tracker,
                       shown |-> Shown(rec, r)]

\* terminalOpenListener
OpenTerminal(t) ==
    /\ terminals[t] = "none"
    /\ terminals' = [terminals EXCEPT ![t] = "starting"]
    /\ terminalPidCache' = NoCache
    /\ lastOp' = [op |-> "env"]
    /\ UNCHANGED <<storeVars, focusVars, dir, watch, loads, chainVars, polling, tracker, focusing>>

\* the shell of terminal t runs: terminal.processId settles
TerminalProcessCreated(t) ==
    /\ terminals[t] = "starting"
    /\ terminals' = [terminals EXCEPT ![t] = "open"]
    /\ lastOp' = [op |-> "env"]
    /\ UNCHANGED <<storeVars, focusVars, dir, watch, loads, chainVars, polling>>
    /\ UNCHANGED <<terminalPidCache, tracker, focusing>>

\* terminalCloseListener
CloseTerminal(t) ==
    /\ t \in OpenTerminals
    /\ terminals' = [terminals EXCEPT
                        ![t] = IF @ = "open" THEN "closed" ELSE "aborted"]
    /\ tracker' = RemoveTerminal(tracker, t)
    /\ terminalPidCache' = NoCache
    /\ lastOp' = [op |-> "closeTerminal", t |-> t]
    /\ UNCHANGED <<storeVars, focusVars, dir, watch, loads, chainVars, polling, focusing>>

\* a focus action for session id that has just read vscode.window.terminals
FocusRec(id, local) ==
    [id |-> id, session |-> reg[RegWindow][id], terminals |-> OpenTerminals,
     pc |-> "pids", pidMap |-> {}, local |-> local]

\* terminalTracker.getTerminalForSession(sessionId): the recorded terminal
\* if vscode.window.terminals still includes it
GetTerminalForSession(id) ==
    IF tracker.sessionToTerminal[id] \in OpenTerminals
    THEN tracker.sessionToTerminal[id] ELSE NoTerminal

\* await matchSessionToTerminal(session, terminals) up to the first await
\* that waits: with a cached pid map, or with no terminal whose processId
\* is still pending, the match is made at once
MatchStart(rec) ==
    IF terminalPidCache # NoCache
    THEN /\ MatchReturns(focusing, rec,
                         AfterPidMap(rec, terminalPidCache.terms),
                         terminalPidCache.terms)
         /\ UNCHANGED terminalPidCache
    ELSE IF \A t \in OpenTerminals : terminals[t] = "open"
    THEN /\ MatchReturns(focusing, rec,
                         AfterPidMap(rec, PidMapOf(OpenTerminals)),
                         PidMapOf(OpenTerminals))
         /\ terminalPidCache' = CacheOf(PidMapOf(OpenTerminals))
    ELSE /\ focusing' = Append(focusing, rec)
         /\ lastOp' = [op |-> "env"]
         /\ UNCHANGED <<terminalPidCache, tracker>>

\* handleFocusRequest(request) for session id, from the lookup of the
\* session to the first await that waits: with a cached pid map, or with no
\* terminal whose processId is still pending, the match is made at once
FocusStart(id) ==
    /\ Len(focusing) < MaxFocusing
    /\ reg[RegWindow][id] # NoSession
    /\ OpenTerminals # {}
    /\ MatchStart(FocusRec(id, FALSE))
    /\ UNCHANGED <<storeVars, focusVars, dir, watch, loads, chainVars, polling, terminals>>

\* focusTerminalForSession(session) from const terminals =
\* vscode.window.terminals on (the local path): the recorded terminal if it
\* is still open, else the only terminal, else the match; in the first two
\* cases show() is followed by clearAttentionIfNeeded with no await between
FocusTerminalForSession(id) ==
    /\ Len(focusing) < MaxFocusing
    /\ reg[RegWindow][id] # NoSession
    /\ OpenTerminals # {}
    /\ LET rec == FocusRec(id, TRUE)
           existingTerminal == GetTerminalForSession(id)
           only == CHOOSE t \in OpenTerminals : TRUE
           shows(t) ==
               /\ focusing' = Append(focusing, [rec EXCEPT !.pc = "clear"])
               /\ lastOp' = [op |-> "show", id |-> id, shown |-> t,
                             terminals |-> OpenTerminals, had |-> tracker]
               /\ UNCHANGED terminalPidCache
       IN  IF existingTerminal # NoTerminal
           THEN shows(existingTerminal) /\ UNCHANGED tracker
           ELSE IF Cardinality(OpenTerminals) = 1
           THEN shows(only) /\ tracker' = Associate(tracker, id, only)
           ELSE MatchStart(rec)
    /\ UNCHANGED <<storeVars, focusVars, dir, watch, loads, chainVars, polling, terminals>>

\* focusTerminalForSession resumes after showQuickPick: the user has
\* selected one of the terminals offered, or dismissed the pick
FocusPick(k, selected) ==
    /\ k \in 1..Len(focusing)
    /\ focusing[k].pc = "pick"
    /\ selected \in focusing[k].terminals \cup {NoTerminal}
    /\ IF selected # NoTerminal
       THEN /\ tracker' = Associate(tracker, focusing[k].id, selected)
            /\ focusing' = Append(Others(k), [focusing[k] EXCEPT !.pc = "clear"])
            /\ lastOp' = [op |-> "show", id |-> focusing[k].id,
                          shown |-> selected,
                          terminals |-> focusing[k].terminals,
                          had |-> tracker]
       ELSE /\ focusing' = Others(k)
            /\ lastOp' = [op |-> "env"]
            /\ UNCHANGED tracker
    /\ UNCHANGED <<storeVars, focusVars, dir, watch, loads, chainVars, polling, terminals,
                   terminalPidCache>>

\* getTerminalPidMap resumes after its last await: terminalPidCache = pidMap
FocusPidsDone(k) ==
    /\ k \in 1..Len(focusing)
    /\ focusing[k].pc = "pids"
    /\ \A t \in focusing[k].terminals : terminals[t] # "starting"
    /\ LET rec == focusing[k]
           pidMap == PidMapOf(rec.terminals)
       IN  /\ terminalPidCache' = CacheOf(pidMap)
           /\ MatchReturns(Others(k), rec, AfterPidMap(rec, pidMap), pidMap)
    /\ UNCHANGED <<storeVars, focusVars, dir, watch, loads, chainVars, polling, terminals>>

\* matchSessionToTerminal resumes after await getProcessChain(claudePid)
FocusChainDone(k) ==
    /\ k \in 1..Len(focusing)
    /\ focusing[k].pc = "chain"
    /\ LET rec == focusing[k]
           matched == FirstInChain(ProcessChain(ExtractPid(rec.id)),
                                   rec.pidMap)
       IN  MatchReturns(Others(k), rec,
                        [matched |-> matched,
                         pc |-> IF matched # NoTerminal THEN "clear"
                                ELSE NoMatchPc(rec)],
                        rec.pidMap)
    /\ UNCHANGED <<storeVars, focusVars, dir, watch, loads, chainVars, polling, terminals,
                   terminalPidCache>>

\* handleFocusRequest resumes after the terminal.focus command:
\* clearAttentionIfNeeded(session) on the session object it looked up
FocusClear(k) ==
    /\ k \in 1..Len(focusing)
    /\ focusing[k].pc = "clear"
    /\ LET rec == focusing[k]
       IN  IF /\ rec.session.status = "attention"
              /\ reg[RegWindow][rec.id] # NoSession
           THEN /\ StatusWrite(RegWindow, rec.id, "running")
                /\ ListenerRan(RegWindow, dir)
           ELSE UNCHANGED <<disk, reg, tracker>>
    /\ focusing' = Others(k)
    /\ lastOp' = [op |-> "env"]
    /\ UNCHANGED <<now, platform, tzOffset, alive, roots, clean>>
    /\ UNCHANGED <<focusVars, dir, watch, loads, chainVars, polling, terminals, terminalPidCache>>

----------------------------------------------------------------------------
(* getProcessChain: the ancestors of an agent process, memoized *)

\* const maxDepth = 10 and PROCESS_CHAIN_CACHE_TTL = 10 * 60 * 1000
MaxDepth == 10
ChainTtlMs == 600000

\* the pids of the process table: 1 is the root on unix
MaxPid == 12
WalkPids == 1..MaxPid

\* a table in which no process has a parent
NoProcs == [p \in WalkPids |-> NoPid]

\* the parent relations the OS reports: every process is the child of the
\* one with the next smaller pid down to the root ("tree"); the same with
\* the parent of process k not to be found ("orphan"); the same with the
\* highest pid (reused) as the parent of process k ("cycle")
Lineage(kind, k) ==
    [p \in WalkPids |->
        IF p = 1 THEN NoPid
        ELSE IF kind = "orphan" /\ p = k THEN NoPid
        ELSE IF kind = "cycle" /\ p = k THEN MaxPid
        ELSE p - 1]

Lineages ==
    {Lineage("tree", 1)} \cup
    {Lineage(kind, k) : kind \in {"orphan", "cycle"}, k \in {2, MaxPid - 1}}

\* no entry of processChainCache; failed is history: whether a query of the
\* walk that produced the chain failed or timed out
NoChain == [chain |-> <<>>, timestamp |-> 0 - 1, failed |-> FALSE]
NoChains == [p \in WalkPids |-> NoChain]

NoWalk == [pc |-> "idle"]

\* the end of getProcessChain after a walk: processChainCache.set(startPid,
\* { chain, timestamp: Date.now() }) and return chain
ChainReturns(startPid, chain, failed) ==
    /\ processChainCache' =
           [processChainCache EXCEPT
               ![startPid] = [chain |-> chain, timestamp |-> now,
                              failed |-> failed]]
    /\ walking' = NoWalk
    /\ lastOp' = [op |-> "getProcessChain", startPid |-> startPid,
                  chain |-> chain, cached |-> FALSE, failed |-> failed]

\* the condition of the for loop of getUnixProcessChain
WalkGoesOn(i, currentPid) ==
    i < MaxDepth /\ currentPid # NoPid /\ currentPid > 1

\* getProcessChain(startPid) up to its return from the cache or to the first
\* await of the walk: the first exec of ps on unix, the exec of powershell
\* on win32
GetProcessChain(startPid) ==
    /\ walking = NoWalk
    /\ LET cached == processChainCache[startPid]
       IN  IF cached # NoChain /\ now - cached.timestamp < ChainTtlMs
           THEN /\ lastOp' = [op |-> "getProcessChain", startPid |-> startPid,
                              chain |-> cached.chain, cached |-> TRUE,
                              failed |-> cached.failed]
                /\ UNCHANGED <<processChainCache, walking>>
           ELSE IF platform = "unix" /\ ~WalkGoesOn(0, startPid)
           THEN ChainReturns(startPid, <<>>, FALSE)
           ELSE /\ walking' = [pc |-> IF platform = "win32" THEN "exec"
                                      ELSE "ps",
                               startPid |-> startPid, chain |-> <<startPid>>,
                               currentPid |-> startPid, i |-> 0,
                               failed |-> FALSE]
                /\ lastOp' = [op |-> "env"]
                /\ UNCHANGED processChainCache
    /\ UNCHANGED <<storeVars, focusVars, dir, watch, loads, termVars, procs, polling>>

\* getParentPid(pid) settles: the parent that ps prints, or null when the
\* exec fails (ok) or prints no number; the loop goes on or the walk returns
UnixWalkStep(ok) ==
    /\ walking.pc = "ps"
    /\ LET parent == IF ok THEN procs[walking.currentPid] ELSE NoPid
           i == walking.i + 1
           failed == walking.failed \/ ~ok
       IN  IF WalkGoesOn(i, parent)
           THEN /\ walking' = [walking EXCEPT
                                  !.chain = Append(@, parent),
                                  !.currentPid = parent, !.i = i,
                                  !.failed = failed]
                /\ lastOp' = [op |-> "env"]
                /\ UNCHANGED processChainCache
           ELSE ChainReturns(walking.startPid, walking.chain, failed)
    /\ UNCHANGED <<storeVars, focusVars, dir, watch, loads, termVars, procs, polling>>

\* the loop of the PowerShell command: while($id -and $id -gt 0 -and
\* $procs.ContainsKey($id)) { $chain+=$id; $id=$procs[$id] }, cut off after
\* fuel rounds (it has no bound of its own)
RECURSIVE PowerShellChain(_, _)
PowerShellChain(id, fuel) ==
    IF id = NoPid \/ fuel = 0 THEN <<>>
    ELSE <<id>> \o PowerShellChain(procs[id], fuel - 1)

\* the loop of the PowerShell command never ends: the chain from id comes
\* back to a process it has visited
Cyclic(id) == Len(PowerShellChain(id, MaxPid + 1)) > MaxPid

\* the callback of exec(cmd, { timeout: 10000 }) of getWindowsProcessChain:
\* an error (the command failed, or was killed at the timeout, as it is when
\* its loop does not end) resolves [startPid], else the chain printed
WindowsWalkDone(ok) ==
    /\ walking.pc = "exec"
    /\ LET error == ~ok \/ Cyclic(walking.startPid)
       IN  ChainReturns(walking.startPid,
                        IF error THEN <<walking.startPid>>
                        ELSE PowerShellChain(walking.startPid, MaxPid),
                        error)
    /\ UNCHANGED <<storeVars, focusVars, dir, watch, loads, termVars, procs, polling>>

----------------------------------------------------------------------------
(* The clock *)

\* the clock advances in steps of this many milliseconds
TickMs == 500

Advance(ms, until) ==
    /\ now + ms <= until
    /\ now' = now + ms
    /\ lastOp' = [op |-> "env"]
    /\ UNCHANGED <<platform, tzOffset, alive, disk, reg, roots, clean>>
    /\ UNCHANGED focusVars
    /\ UNCHANGED extVars

----------------------------------------------------------------------------
(* SpecReg: the liveness prober of one window, the producers that start and
   end sessions, and the agent processes that exit *)

\* the components outside the store and the focus router, not started
AuxIdle ==
    /\ watch = WatchIdle
    /\ loads = [w \in Windows |-> <<>>]
    /\ terminals = [t \in Terminals |-> "none"]
    /\ terminalPidCache = NoCache
    /\ tracker = NoAffinity
    /\ focusing = <<>>
    /\ procs = NoProcs
    /\ processChainCache = NoChains
    /\ walking = NoWalk
    /\ polling = [w \in Windows |-> OncePolling]

NoOp == [op |-> "init"]

InitReg ==
    /\ now = SecMs
    /\ platform \in {"unix", "win32"}
    /\ tzOffset = 0
    /\ alive = AgentPids
    /\ disk = [id \in SessionIds |-> NoFile]
    /\ reg = [w \in Windows |-> EmptyRegistry]
    /\ roots = [w \in Windows |-> <<"/a">>]
    /\ clean = [w \in Windows |-> CleanIdle]
    /\ focusFile = NoFile
    /\ writes = 0
    /\ ipc = [w \in Windows |-> IpcIdle]
    /\ acted = {}
    /\ exposed = {}
    /\ replaced = {}
    /\ dir = TRUE
    /\ AuxIdle
    /\ lastOp = NoOp

NextReg ==
    \/ \E id \in SessionIds : ProducerStart(id)
    \/ \E id \in SessionIds : ProducerEnd(id)
    \/ \E pid \in {100, 200} : ProcessExit(pid)
    \/ LoadSessions(RegWindow)
    \/ CleanupBegin(RegWindow)
    \/ \E queryOk \in BOOLEAN : CleanupFinish(RegWindow, queryOk)

SpecReg == InitReg /\ [][NextReg]_vars

----------------------------------------------------------------------------
(* Claims about cleanupNow, checked under SpecReg *)

\* a cleanupNow() of the window has just returned
CleanupReturned == lastOp.op = "cleanupNow"

\* C1: if the platform liveness query fails or times out, cleanupNow()
\* removes nothing: no session file is unlinked, every registry entry it
\* saw is still in the registry, and the result has removedCount 0.
C1_FailedProbeRemovesNothing ==
    (CleanupReturned /\ lastOp.probe = "failed") =>
        /\ lastOp.result.removedCount = 0
        /\ lastOp.result.removedIds = <<>>
        /\ lastOp.unlinked = {}

\* the ids of the form ppid-<digits> among the ids of the model, and the pid
\* each one names, written out by hand
C2_PidOfId(id) ==
    CASE id = "ppid-100" -> 100 [] id = "ppid-200" -> 200 [] OTHER -> NoPid

\* the ids, in registry order, of the sessions cleanupNow() must remove given
\* what the probe reported
C2_Expected(sessions, reported) ==
    LET Dead(x) == C2_PidOfId(x.id) # NoPid /\ C2_PidOfId(x.id) \notin reported
        dead == SelectSeq(sessions, Dead)
    IN  [i \in 1..Len(dead) |-> dead[i].id]

----------------------------------------------------------------------------
(* SpecStore: the session files of two sessions, written by their producers
   and by the status clear of one window, and the registry that reloads them *)

StoreIds == {"ppid-200", "ppid-7x"}

\* a Windows machine east of Greenwich: local time is UTC + 1 h
LocalOffsetMs == 3600000

InitStore ==
    /\ now = SecMs
    /\ platform \in {"unix", "win32"}
    /\ tzOffset \in {0, LocalOffsetMs}
    /\ alive = AgentPids
    /\ disk = [id \in SessionIds |-> NoFile]
    /\ reg = [w \in Windows |-> EmptyRegistry]
    /\ roots = [w \in Windows |-> <<"/a">>]
    /\ clean = [w \in Windows |-> CleanIdle]
    /\ focusFile = NoFile
    /\ writes = 0
    /\ ipc = [w \in Windows |-> IpcIdle]
    /\ acted = {}
    /\ exposed = {}
    /\ replaced = {}
    /\ dir = TRUE
    /\ AuxIdle
    /\ lastOp = NoOp

NextStore ==
    \/ Advance(TickMs, MaxTime)
    \/ \E id \in StoreIds : ProducerTruncate(id)
    \/ \E id \in StoreIds : ProducerStart(id)
    \/ \E id \in StoreIds : ProducerAttention(id)
    \/ \E id \in StoreIds : ProducerIdle(id)
    \/ \E id \in StoreIds : ProducerEnd(id)
    \/ LoadSessions(RegWindow)
    \/ \E id \in StoreIds : ClearAttention(RegWindow, id)
    \/ RemoveClaudeHooks

SpecStore == InitStore /\ [][NextStore]_vars

----------------------------------------------------------------------------
(* Claims about the session files and the registry, checked under SpecStore *)

\* updateSessionStatus(id, 'running') has just returned for a session whose
\* registry record had status attention
AttentionCleared ==
    /\ lastOp.op = "updateSessionStatus"
    /\ ~lastOp.threw
    /\ lastOp.prev.status = "attention"

\* C8: clearAttention(id) on a session whose status is attention results in
\* status running, reason absent and a lastUpdate strictly greater than the
\* previous lastUpdate, both in the registry and in the session's file.
C8_ClearAttentionAdvancesLastUpdate ==
    AttentionCleared =>
        LET r == reg[lastOp.w][lastOp.id]
            f == disk[lastOp.id]
        IN  /\ r # NoSession
            /\ r.status = "running"
            /\ r.reason = AbsentS
            /\ r.lastUpdate > lastOp.prev.lastUpdate
            /\ f.kind = "json"
            /\ f.obj.status = "running"
            /\ f.obj.reason = AbsentS
            /\ f.obj.lastUpdate > lastOp.prev.lastUpdate

\* a file as a reader of the directory sees it: well-formed when it parses to
\* an object with an id and a status
C9_WellFormed(id) == disk[id].kind = "json"

\* the ids of the records of a view
C9_Ids(view) == {view[i].id : i \in 1..Len(view)}

\* every record of a view is the content of the file of its id, once
C9_ViewOfDisk(view) ==
    /\ \A i \in 1..Len(view) :
          C9_WellFormed(view[i].id) /\ view[i] = disk[view[i].id].obj
    /\ \A i, j \in 1..Len(view) : view[i].id = view[j].id => i = j

C10_SameS(written, read) ==
    IF written \in {AbsentS, UndefinedS} THEN read = AbsentS ELSE read = written

C10_SameN(written, read) ==
    IF written \in {AbsentN, UndefinedN} THEN read = AbsentN ELSE read = written

C10_SameRecord(written, read) ==
    /\ C10_SameS(written.id, read.id)
    /\ C10_SameS(written.status, read.status)
    /\ C10_SameS(written.reason, read.reason)
    /\ C10_SameS(written.cwd, read.cwd)
    /\ C10_SameN(written.lastUpdate, read.lastUpdate)
    /\ C10_SameN(written.terminalPid, read.terminalPid)
    /\ C10_SameS(written.vscodeIpcHandle, read.vscodeIpcHandle)

C11_BadFileSkipsOnlyItself ==
    (/\ lastOp.op = "loadSessions"
     /\ \E bad \in SessionIds : disk[bad] = Truncated) =>
        \A id \in SessionIds :
            /\ disk[id] = Truncated => reg[lastOp.w][id] = NoSession
            /\ disk[id].kind = "json" => reg[lastOp.w][id] = disk[id].obj

\* a reload that met the truncated file of ppid-200 first and loaded the
\* well-formed file of ppid-7x, which comes after it in the directory
C11_Witness ==
    /\ lastOp.op = "loadSessions"
    /\ disk["ppid-200"] = Truncated
    /\ disk["ppid-7x"].kind = "json"
    /\ reg["w1"]["ppid-200"] = NoSession
    /\ reg["w1"]["ppid-7x"] = disk["ppid-7x"].obj

----------------------------------------------------------------------------
(* SpecFocus: two windows that poll the shared request file, the switches
   that write requests into it, and the clock *)

\* the sessions focus requests are writes for
FocusIds == {"ppid-200", "ppid-7x"}

\* the workspace folders a window may have open
RootChoices == {<<"/a">>, <<"/c">>, <<"/c", "/a">>}

\* at most this many requests are written to the shared file
MaxRequests == 1

\* the clock of SpecFocus advances in steps of this many milliseconds, between
\* the polls: a poll is one synchronous run of checkForFocusRequest
FocusTickMs == 5000

\* and stops after this many steps
FocusTicks == 2

\* the session files of three sessions, one of them waiting for attention
FocusDisk ==
    [id \in SessionIds |->
        IF id = "ppid-7x"
        THEN JsonFile(ProducerRecord(id, "attention", "permission_prompt"))
        ELSE JsonFile(ProducerRecord(id, "running", AbsentS))]

InitFocus ==
    /\ now = SecMs
    /\ platform = "unix"
    /\ tzOffset = 0
    /\ alive = AgentPids
    /\ disk = FocusDisk
    /\ reg = [w \in Windows |-> Loaded(disk)]
    /\ roots \in [Windows -> RootChoices]
    /\ clean = [w \in Windows |-> CleanIdle]
    /\ focusFile = NoFile
    /\ writes = 0
    /\ ipc = [w \in Windows |-> IpcIdle]
    /\ acted = {}
    /\ exposed = {}
    /\ replaced = {}
    /\ dir = TRUE
    /\ AuxIdle
    /\ lastOp = NoOp

NextFocus ==
    \/ /\ \A w \in Windows : ipc[w].pc = "idle"
       /\ Advance(FocusTickMs, SecMs + FocusTicks * FocusTickMs)
    \/ \E w \in Windows : LearnIpcHandleFromSessions(w)
    \/ \E w \in Windows :
          /\ writes < MaxRequests
          /\ WriteFocusRequestOpen(w)
    \/ \E w \in Windows, id \in FocusIds :
          /\ writes < MaxRequests
          /\ SwitchToWindow(w, id)
    \/ \E w \in Windows :
          /\ writes < MaxRequests
          /\ WriteFocusRequestThrows(w)
    \/ \E w \in Windows : PollStat(w)
    \/ \E w \in Windows, readOk \in BOOLEAN : PollRead(w, readOk)
    \/ \E w \in Windows : PollCheck(w)
    \/ \E w \in Windows, i \in 1..2, ok \in BOOLEAN : PollUnlink(w, i, ok)
    \/ \E w \in Windows, i \in 1..2, canFocus \in BOOLEAN :
          HandleFocusRequest(w, i, canFocus)

SpecFocus == InitFocus /\ [][NextFocus]_vars

----------------------------------------------------------------------------
(* Claims about the focus requests, checked under SpecFocus *)

\* the windows that have acted upon request seq
Actors(seq) == {e.w : e \in {x \in acted : x.seq = seq}}

\* window w is between its claim of a request and the end of that poll
InClaim(w) == ipc[w].pc \in {"claim1", "claim2"}

\* C3, as stated: every focus request written to the shared file is acted
\* upon by at most one window, in every interleaving of the windows' poll
\* steps and for every assignment of workspace roots.
C3_AtMostOneWindowActs ==
    \A seq \in 1..writes : Cardinality(Actors(seq)) <= 1

\* C3, amended: a focus request is acted upon by at most one window unless a
\* second window could read it after the first had claimed it, that is
\* unless another window had already read the request when the claiming
\* window's delete ran, or that delete failed.
C3_AtMostOneWindowActsUnlessExposed ==
    \A seq \in 1..writes :
        seq \notin exposed => Cardinality(Actors(seq)) <= 1

\* two windows without a learned handle both have the request's directory in
\* their workspace; the first has claimed, deleted and handled the request
\* before the second, which has not looked yet, can read it
C3_Witness ==
    /\ acted = {[w |-> "w1", seq |-> 1, stale |-> FALSE]}
    /\ exposed = {}
    /\ writes = 1
    /\ focusFile = NoFile
    /\ \A w \in Windows :
          /\ ipc[w].pc = "idle"
          /\ ipc[w].learned = UndefinedS
          /\ IsCwdInCurrentWorkspace(w, "/a")
          /\ IsCwdInCurrentWorkspace(w, "/a/b")
    /\ ipc["w2"].lastMtime = 0

\* VSCODE_GIT_IPC_HANDLE of the terminals of each window
C4_WindowToken(w) == IF w = "w1" THEN "hA" ELSE "hB"

C4_Checks(w) == ipc[w].pc = "read" /\ ipc'[w].pc # "read"

C5_StaleNeverActedUpon ==
    /\ \A w \in Windows :
          InClaim(w) => now - ipc[w].request.timestamp <= StaleMs
    /\ \A e \in acted : ~e.stale

\* the request in the file is older than the bound, both windows have
\* examined this version of the file, and nobody has acted upon it
C5_Witness ==
    /\ focusFile.kind = "json"
    /\ now - focusFile.obj.timestamp > StaleMs
    /\ \A w \in Windows :
          ipc[w].pc = "idle" /\ ipc[w].lastMtime = focusFile.mtime
    /\ Actors(focusFile.obj.seq) = {}

\* C6, as stated: when a poll finds a stale focus request (timestamp more
\* than 5 seconds old), the shared request file is removed: after that poll
\* the file does not exist.
C6_StalePollRemovesFile ==
    [][\A w \in Windows :
         (/\ ipc[w].pc = "read"
          /\ ipc'[w].pc = "idle"
          /\ now - ipc[w].request.timestamp > StaleMs) =>
             focusFile' = NoFile]_vars

\* the step is the handling of a claimed request by window w
C7_Handles(w) ==
    /\ \E i \in 1..Len(ClaimSteps) :
          ipc[w].pc = ClaimPc(i) /\ ClaimSteps[i] = "handle"
    /\ ipc'[w] # ipc[w]

\* C7, as stated: when a window claims a focus request, the shared file has
\* been deleted before any part of the action starts, so the file no longer
\* holds the request when the action starts.
C7_DeletedWhenActionStarts ==
    [][\A w \in Windows :
         C7_Handles(w) =>
            ~(/\ focusFile.kind = "json"
              /\ focusFile.obj.seq = ipc[w].request.seq)]_vars

\* C7, amended: when a window claims a focus request, its delete of the
\* shared file has run before any part of the action starts, and unless that
\* delete failed the file no longer holds the request when the action starts.
C7_DeleteBeforeAction ==
    [][\A w \in Windows :
         C7_Handles(w) =>
            /\ ipc[w].unlink # "none"
            /\ (focusFile.kind = "json" /\ focusFile.obj.seq = ipc[w].request.seq)
                  => ipc[w].unlink = "failed"]_vars

\* a window has claimed the only request, deleted the file and then handled
\* the request; no other window had read it
C7_Witness ==
    /\ writes = 1
    /\ acted # {}
    /\ exposed = {}
    /\ focusFile = NoFile
    /\ \A w \in Windows : ipc[w].pc = "idle"
    /\ \E w \in Windows : ipc[w].lastMtime = 0

\* C13: a poll that finds the request file missing, unreadable or not valid
\* JSON ends in the catch without an error: it performs no activation,
\* terminal focus or attention clear, leaves the file as it is, and the
\* window is idle again, which is all its next poll needs.
C13_BadFilePollDoesNothing ==
    [][lastOp'.op = "poll" =>
          /\ focusFile' = focusFile
          /\ acted' = acted
          /\ disk' = disk
          /\ reg' = reg
          /\ \A w \in Windows :
                ipc'[w] # ipc[w] =>
                    /\ ipc[w].pc \in {"idle", "stat"}
                    /\ ipc'[w].pc = "idle"]_vars

\* a window has polled the file between the open and the write of the first
\* request, JSON.parse threw, and the file is still there
C13_Witness ==
    /\ lastOp.op = "poll"
    /\ lastOp.found = "malformed"
    /\ focusFile = OpenedFocusFile(1)
    /\ acted = {}
    /\ \E w \in Windows :
          ipc[w].pc = "idle" /\ ipc[w].lastMtime = focusFile.mtime

\* C14: no I/O error on the focus-request file reaches a caller of the router:
\* a call of switchToWindow whose write of the file fails still completes
\* without an exception.
C14_NoIoErrorThrown ==
    lastOp.op = "switchToWindow" => ~lastOp.threw

----------------------------------------------------------------------------
(* Claims about reloads in flight, checked under SpecLoad *)

InitLoad == InitReg

NextLoad ==
    \/ \E id \in StoreIds : ProducerStart(id)
    \/ \E id \in StoreIds : ProducerAttention(id)
    \/ \E id \in StoreIds : ProducerEnd(id)
    \/ RemoveClaudeHooks
    \/ LoadSessions(RegWindow)
    \/ LoadSessionsCall(RegWindow)
    \/ \E k \in 1..MaxLoads, ok \in BOOLEAN : ReadJsonSettles(RegWindow, k, ok)
    \/ \E k \in 1..MaxLoads : LoadSessionsResume(RegWindow, k)

SpecLoad == InitLoad /\ [][NextLoad]_vars

\* C15: a reload replaces the map as a whole: between two callbacks of the
\* event loop, where any reader may run, the map of a window only ever
\* changes from one complete image to another, that is to everything the
\* directory holds at that moment or to everything a waiting call has read
\* (nothing when its read failed), also with two reloads in flight.
C15_ReloadSwapsWholeMap ==
    [][\A w \in Windows :
          reg'[w] # reg[w] =>
              \/ reg'[w] = LoadedDir(dir, disk)
              \/ \E k \in 1..Len(loads[w]) :
                    /\ loads[w][k] # PendingRead
                    /\ reg'[w] = IF loads[w][k] = FailedRead
                                 THEN EmptyRegistry
                                 ELSE loads[w][k].sessions]_vars

\* two reloads were in flight together with different contents read; one
\* has resumed and the map is all it read (both sessions, one of them gone
\* from the directory since), the other still waits
C15_Witness ==
    /\ lastOp.op = "loadSessions"
    /\ ~lastOp.mkdir
    /\ Len(loads[RegWindow]) = 1
    /\ loads[RegWindow][1].kind = "data"
    /\ loads[RegWindow][1].sessions # reg[RegWindow]
    /\ \A id \in StoreIds : reg[RegWindow][id] # NoSession
    /\ disk["ppid-200"] = NoFile

----------------------------------------------------------------------------
(* Claims about the directory watcher, checked under SpecWatch *)

\* no debounce timeout has expired without having run: the event loop runs
\* expired timeouts before it takes the next event or lets time pass
NoTimeoutDue == \A t \in watch.timers : now < t

\* the clock moves by ms, or up to the next debounce timeout if that is sooner
StepTo(ms) ==
    LET ahead == {t - now : t \in watch.timers}
    IN  IF \E a \in ahead : a < ms
        THEN CHOOSE a \in ahead : \A o \in ahead : a <= o
        ELSE ms

InitWatch ==
    /\ InitReg
    /\ platform = "unix"

NextWatch ==
    \/ /\ NoTimeoutDue
       /\ Advance(StepTo(WatchTickMs), WatchBurstEnd)
    \/ /\ NoTimeoutDue
       /\ Advance(StepTo(RestartMs), WatchMaxTime)
    \/ \E ok \in BOOLEAN : WatchStart(ok)
    \/ WatchStop
    \/ \E filename \in WatchNames :
          /\ NoTimeoutDue
          /\ FsEvent(filename)
    \/ \E t \in watch.timers : DebounceFire(t)
    \/ WatchError
    \/ \E ok \in BOOLEAN : RestartFire(ok)
    \/ RemoveClaudeHooks

SpecWatch == InitWatch /\ [][NextWatch]_vars

C17_NeverSilentlyStopped ==
    (watch.started /\ watch.errors > 0) =>
        (watch.watcher = "armed" \/ watch.restart # NoTimer)

----------------------------------------------------------------------------
(* Claims about terminals and affinities, checked under SpecTerm *)

\* three agents have started, the one of ppid-100 asks for attention, and
\* window w1 has loaded their records; no terminal is open yet
StartedDisk ==
    [id \in SessionIds |->
        JsonFile(ProducerRecord(id,
                                IF id = "ppid-100" THEN "attention"
                                ELSE "running",
                                IF id = "ppid-100" THEN "permission_prompt"
                                ELSE AbsentS))]

InitTerm ==
    /\ now = SecMs
    /\ platform = "unix"
    /\ tzOffset = 0
    /\ alive = AgentPids
    /\ disk = StartedDisk
    /\ reg = [w \in Windows |-> IF w = RegWindow THEN Loaded(StartedDisk)
                                 ELSE EmptyRegistry]
    /\ roots = [w \in Windows |-> <<"/a">>]
    /\ clean = [w \in Windows |-> CleanIdle]
    /\ focusFile = NoFile
    /\ writes = 0
    /\ ipc = [w \in Windows |-> IpcIdle]
    /\ acted = {}
    /\ exposed = {}
    /\ replaced = {}
    /\ dir = TRUE
    /\ AuxIdle
    /\ lastOp = NoOp

\* no focus action waits for a processId that has settled: a promise that
\* settles resumes its awaiter before the event loop takes the next event
NoResumeDue ==
    \A k \in 1..Len(focusing) :
        focusing[k].pc = "pids" =>
            \E t \in focusing[k].terminals : terminals[t] = "starting"

NextTerm ==
    \/ \E id \in {"ppid-100", "ppid-7x"} : NoResumeDue /\ ProducerEnd(id)
    \/ NoResumeDue /\ LoadSessions(RegWindow)
    \/ \E t \in Terminals : NoResumeDue /\ OpenTerminal(t)
    \/ \E t \in Terminals : NoResumeDue /\ TerminalProcessCreated(t)
    \/ \E t \in Terminals : NoResumeDue /\ CloseTerminal(t)
    \/ \E id \in SessionIds : NoResumeDue /\ FocusStart(id)
    \/ \E k \in 1..MaxFocusing : FocusPidsDone(k)
    \/ \E k \in 1..MaxFocusing : NoResumeDue /\ FocusChainDone(k)
    \/ \E k \in 1..MaxFocusing : NoResumeDue /\ FocusClear(k)

SpecTerm == InitTerm /\ [][NextTerm]_vars

\* C18: with more than one terminal open and no affinity recorded, each of two
\* sessions whose terminalPid values are the process ids of two different
\* open terminals resolves to the terminal that has its terminalPid.
C18_FastPathResolvesBoth ==
    lastOp.op = "match" =>
        \A t \in lastOp.terminals, u \in lastOp.terminals :
            \A other \in SessionIds :
                ( /\ Cardinality(lastOp.terminals) > 1
                  /\ lastOp.had = NoAffinity
                  /\ t # u
                  /\ terminals[t] = "open"
                  /\ terminals[u] = "open"
                  /\ other # lastOp.id
                  /\ reg[RegWindow][other] # NoSession
                  /\ lastOp.session.terminalPid = TermPid(t)
                  /\ reg[RegWindow][other].terminalPid = TermPid(u) )
                => lastOp.matched = t

\* C19: the affinity maps hold no entry for a terminal that has closed nor
\* for a session id that the registry no longer holds, whatever focus
\* actions are still waiting.
C19_NoAffinityOutlivesItsSides ==
    /\ \A t \in Terminals :
          terminals[t] \in {"closed", "aborted"} =>
              /\ tracker.terminalToSession[t] = AbsentS
              /\ \A id \in SessionIds : tracker.sessionToTerminal[id] # t
    /\ \A id \in SessionIds :
          reg[RegWindow][id] = NoSession =>
              /\ tracker.sessionToTerminal[id] = NoTerminal
              /\ \A t \in Terminals : tracker.terminalToSession[t] # id

----------------------------------------------------------------------------
(* Claims about requests that replace one another, checked under SpecEmit *)

\* the windows emit up to this many requests
MaxEmits == 2

\* both windows have the folder of session ppid-7x open and have not learned
\* a handle
InitEmit ==
    /\ InitFocus
    /\ roots = [w \in Windows |-> <<"/a">>]

NextEmit ==
    \/ \E w \in Windows :
          /\ writes < MaxEmits
          /\ SwitchToWindow(w, "ppid-7x")
    \/ \E w \in Windows : PollStat(w)
    \/ \E w \in Windows : PollRead(w, TRUE)
    \/ \E w \in Windows : PollCheck(w)
    \/ \E w \in Windows, i \in 1..2, ok \in BOOLEAN : PollUnlink(w, i, ok)
    \/ \E w \in Windows, i \in 1..2, canFocus \in BOOLEAN :
          HandleFocusRequest(w, i, canFocus)

SpecEmit == InitEmit /\ [][NextEmit]_vars

\* C20: the request file holds the request emitted last, and no window acts
\* upon a request that a later emit overwrote.
C20_OnlyLatestRequestCounts ==
    /\ focusFile.kind = "json" => focusFile.obj.seq = writes
    /\ \A e \in acted : e.seq \notin replaced

----------------------------------------------------------------------------
(* Claims about the views of the registry, checked under SpecView *)

\* the working directories and the instants of the records a window views
ViewCwds == {"/a", "/a/b", "/ab", "/A"}
ViewStamps == {1000, 2000}
ViewIds == {"ppid-200", "ppid-7x"}
ViewRoots == RootChoices \cup {<<>>}

\* the records a reload can have put under id: none, or what a producer
\* wrote for it in some directory at some instant
ViewRecords(id) ==
    {NoSession} \cup
    {Rec(id, status, IF status = "attention" THEN "permission_prompt"
                     ELSE AbsentS,
         cwd, stamp, SessTerminalPid(id), SessHandle(id)) :
        status \in {"attention", "running", "idle"},
        cwd \in ViewCwds, stamp \in ViewStamps}

InitView ==
    /\ now = SecMs
    /\ platform = "unix"
    /\ tzOffset = 0
    /\ alive = AgentPids
    /\ disk = [id \in SessionIds |-> NoFile]
    /\ \E a \in ViewRecords("ppid-200"), b \in ViewRecords("ppid-7x") :
          reg = [w \in Windows |->
                    IF w = RegWindow
                    THEN [EmptyRegistry EXCEPT !["ppid-200"] = a,
                                               !["ppid-7x"] = b]
                    ELSE EmptyRegistry]
    /\ \E r \in ViewRoots :
          roots = [w \in Windows |-> IF w = RegWindow THEN r ELSE <<"/a">>]
    /\ clean = [w \in Windows |-> CleanIdle]
    /\ focusFile = NoFile
    /\ writes = 0
    /\ ipc = [w \in Windows |-> IpcIdle]
    /\ acted = {}
    /\ exposed = {}
    /\ replaced = {}
    /\ dir = TRUE
    /\ AuxIdle
    /\ lastOp = NoOp

\* a call of getFilteredSessions(sessionManager)
ViewFiltered(w) ==
    /\ lastOp' = [op |-> "getFiltered", by |-> "getFilteredSessions",
                  result |-> GetFilteredSessions(w)]
    /\ UNCHANGED <<storeVars, focusVars, extVars>>

\* a call of filterByWorkspace on all sessions
ViewInWorkspace(w) ==
    /\ lastOp' = [op |-> "getFiltered", by |-> "filterByWorkspace",
                  result |-> FilterSeqByWorkspace(w, GetAllSessions(w))]
    /\ UNCHANGED <<storeVars, focusVars, extVars>>

\* a call of getAttentionRequired(), getIdle() or getRunning()
ViewByStatus(w, status) ==
    /\ lastOp' = [op |-> "getByStatus", status |-> status,
                  result |-> GetByStatus(w, status)]
    /\ UNCHANGED <<storeVars, focusVars, extVars>>

NextView ==
    \/ ViewFiltered(RegWindow)
    \/ ViewInWorkspace(RegWindow)
    \/ \E status \in {"attention", "running", "idle"} :
          ViewByStatus(RegWindow, status)

SpecView == InitView /\ [][NextView]_vars

\* a path with case and a trailing separator taken out
C21_Normal(p) == ToLower(PathResolve(UnescapeBackslashes(PathChars(p))))

\* cwd is the root or a path below it
C21_AtOrBelow(cwd, root) ==
    \/ C21_Normal(cwd) = C21_Normal(root)
    \/ StartsWith(C21_Normal(cwd), C21_Normal(root) \o <<"/">>)

\* C21: with workspace roots the filtered view is exactly the sessions whose
\* cwd is a root or below one; without roots it is all sessions.
C21_FilteredIsExactlyBelowRoots ==
    lastOp.op = "getFiltered" =>
        {lastOp.result[i].id : i \in 1..Len(lastOp.result)} =
            {id \in SessionIds :
                /\ reg[RegWindow][id] # NoSession
                /\ \/ roots[RegWindow] = <<>>
                   \/ \E i \in 1..Len(roots[RegWindow]) :
                         C21_AtOrBelow(reg[RegWindow][id].cwd,
                                       roots[RegWindow][i])}

\* C22: a status list (getAttentionRequired, getIdle, getRunning) holds only
\* sessions of the requested status, each session at most once, ordered by
\* lastUpdate with the most recent first.
C22_StatusListSortedAndPure ==
    lastOp.op = "getByStatus" =>
        LET r == lastOp.result
        IN  /\ \A i \in 1..Len(r) :
                  /\ r[i].status = lastOp.status
                  /\ reg[RegWindow][r[i].id] = r[i]
            /\ \A i, j \in 1..Len(r) :
                  i < j => /\ r[i].id # r[j].id
                           /\ r[i].lastUpdate >= r[j].lastUpdate

\* two sessions of the requested status are listed, and the more recent one
\* is the later one in the registry's iteration order
C22_Witness ==
    /\ lastOp.op = "getByStatus"
    /\ Len(lastOp.result) = 2
    /\ lastOp.result[1].lastUpdate > lastOp.result[2].lastUpdate
    /\ GetAllSessions(RegWindow)[1] = lastOp.result[2]

----------------------------------------------------------------------------
(* Claims about the reason field, checked under SpecStore *)

C23_ReasonFits(r) ==
    IF r.status = "attention" THEN Truthy(r.reason) ELSE ~Truthy(r.reason)

\* C23: after any sequence of producer events, status clears and reloads,
\* every record in a session file and in the registry with status attention
\* has a non-empty reason, and every record with another status has none.
C23_ReasonOnlyWithAttention ==
    /\ \A id \in SessionIds :
          disk[id].kind = "json" => C23_ReasonFits(disk[id].obj)
    /\ \A w \in Windows, id \in SessionIds :
          reg[w][id] # NoSession => C23_ReasonFits(reg[w][id])

\* a session that asked for attention has been cleared, and another one in
\* the registry still asks for attention
C23_Witness ==
    /\ AttentionCleared
    /\ disk[lastOp.id].kind = "json"
    /\ disk[lastOp.id].obj.status = "running"
    /\ \E id \in SessionIds :
          /\ reg[RegWindow][id] # NoSession
          /\ reg[RegWindow][id].status = "attention"
          /\ reg[RegWindow][id].reason = "permission_prompt"

----------------------------------------------------------------------------
(* Claims about the target selection, checked under SpecTarget *)

\* the workspace folders of a window: a directory, a sibling of it whose
\* name begins with the same characters, or none
TargetRoots == {<<"/a">>, <<"/ab">>, <<>>}

InitTarget ==
    /\ now = SecMs
    /\ platform = "unix"
    /\ tzOffset = 0
    /\ alive = AgentPids
    /\ disk = FocusDisk
    /\ reg = [w \in Windows |-> Loaded(disk)]
    /\ roots \in [Windows -> TargetRoots]
    /\ clean = [w \in Windows |-> CleanIdle]
    /\ focusFile = NoFile
    /\ writes = 0
    /\ ipc = [w \in Windows |-> IpcIdle]
    /\ acted = {}
    /\ exposed = {}
    /\ replaced = {}
    /\ dir = TRUE
    /\ AuxIdle
    /\ lastOp = NoOp

SpecTarget == InitTarget /\ [][NextFocus]_vars

\* one of the window's workspace roots is the request's cwd, a directory
\* above it or a directory below it
C24_Contained(w, cwd) ==
    \E i \in 1..Len(roots[w]) :
        \/ C21_AtOrBelow(cwd, roots[w][i])
        \/ C21_AtOrBelow(roots[w][i], cwd)

C24_IsTarget(w, request) ==
    IF Truthy(request.vscodeIpcHandle) /\ Truthy(ipc[w].learned)
    THEN request.vscodeIpcHandle = ipc[w].learned
    ELSE C24_Contained(w, request.cwd)

\* C24: a window claims a fresh request if and only if both the request and
\* the window carry a token and the two are equal, or one of them carries
\* none and the request's cwd and a workspace root of the window contain one
\* another; the cwd plays no part when both carry a token.
C24_ClaimsIffTarget ==
    [][\A w \in Windows :
          (C4_Checks(w) /\ ~IsStale(ipc[w].request)) =>
              (ipc'[w].pc = ClaimPc(1) <=> C24_IsTarget(w, ipc[w].request))]_vars

----------------------------------------------------------------------------
(* Claims about the clear of a focus action, checked under SpecClear: a
   window with terminals, a session that asks for attention, its producer,
   and focus actions on it *)

\* the session: its record has no terminalPid, so a match goes by the
\* ancestors of its agent process
ClearId == "ppid-200"

ClearDisk ==
    [id \in SessionIds |->
        IF id = ClearId
        THEN JsonFile(ProducerRecord(id, "attention", HookReason(AbsentS)))
        ELSE NoFile]

InitClear ==
    /\ now = SecMs
    /\ platform = "unix"
    /\ tzOffset = 0
    /\ alive = AgentPids
    /\ disk = ClearDisk
    /\ reg = [w \in Windows |-> IF w = RegWindow THEN Loaded(ClearDisk)
                                 ELSE EmptyRegistry]
    /\ roots = [w \in Windows |-> <<"/a">>]
    /\ clean = [w \in Windows |-> CleanIdle]
    /\ focusFile = NoFile
    /\ writes = 0
    /\ ipc = [w \in Windows |-> IpcIdle]
    /\ acted = {}
    /\ exposed = {}
    /\ replaced = {}
    /\ dir = TRUE
    /\ AuxIdle
    /\ lastOp = NoOp

NextClear ==
    \/ NoResumeDue /\ Advance(TickMs, MaxTime)
    \/ NoResumeDue /\ ProducerStart(ClearId)
    \/ NoResumeDue /\ ProducerAttention(ClearId)
    \/ NoResumeDue /\ ProducerIdle(ClearId)
    \/ NoResumeDue /\ ProducerEnd(ClearId)
    \/ NoResumeDue /\ LoadSessions(RegWindow)
    \/ \E t \in Terminals : NoResumeDue /\ OpenTerminal(t)
    \/ \E t \in Terminals : NoResumeDue /\ TerminalProcessCreated(t)
    \/ NoResumeDue /\ FocusStart(ClearId)
    \/ \E k \in 1..MaxFocusing : FocusPidsDone(k)
    \/ \E k \in 1..MaxFocusing : NoResumeDue /\ FocusChainDone(k)
    \/ \E k \in 1..MaxFocusing : NoResumeDue /\ FocusClear(k)

SpecClear == InitClear /\ [][NextClear]_vars

\* the k-th focus action has shown its terminal and its clear is applied in
\* this step
C25_ClearApplied(k) ==
    /\ k \in 1..Len(focusing)
    /\ focusing[k].pc = "clear"
    /\ focusing' = Others(k)

\* C25: the clear of a focus action changes the session if and only if the
\* registry has it with status attention when the clear is applied, and then
\* the session ends with status running; a session whose producer has moved
\* it to idle or running while the action waited keeps that record.
C25_ClearsOnlyAttention ==
    [][\A k \in 1..MaxFocusing :
          C25_ClearApplied(k) =>
              LET before == reg[RegWindow][focusing[k].id]
                  after == reg'[RegWindow][focusing[k].id]
              IN  IF before # NoSession /\ before.status = "attention"
                  THEN after # NoSession /\ after.status = "running"
                  ELSE IF before = NoSession THEN after = NoSession
                  ELSE after # NoSession /\ after.status = before.status]_vars

----------------------------------------------------------------------------
(* Claims about deleted session files, checked under SpecStore *)

\* C26: once the file of a session has been deleted (by the end event of
\* its producer), no operation of a window creates it again: a status clear
\* made from a registry that has not reloaded since writes nothing.
C26_WindowsNeverRecreate ==
    [][\A id \in SessionIds :
          (disk[id] = NoFile /\ disk'[id] # NoFile) =>
              lastOp'.op \notin {"updateSessionStatus", "loadSessions"}]_vars

----------------------------------------------------------------------------
(* Claims about the terminal a focus action shows, checked under SpecShow:
   the focus actions of the window itself (focusTerminalForSession) and
   those it does for a request of another window (handleFocusRequest) *)

\* no local focus action has shown its terminal and not yet cleared: show()
\* and clearAttentionIfNeeded follow one another with no await between
NoClearDue ==
    \A k \in 1..Len(focusing) :
        focusing[k].pc = "clear" => ~focusing[k].local

Undisturbed == NoResumeDue /\ NoClearDue

NextShow ==
    \/ \E id \in {"ppid-100", "ppid-7x"} : Undisturbed /\ ProducerEnd(id)
    \/ Undisturbed /\ LoadSessions(RegWindow)
    \/ \E t \in Terminals : Undisturbed /\ OpenTerminal(t)
    \/ \E t \in Terminals : Undisturbed /\ TerminalProcessCreated(t)
    \/ \E t \in Terminals : Undisturbed /\ CloseTerminal(t)
    \/ \E id \in SessionIds : Undisturbed /\ FocusStart(id)
    \/ \E id \in SessionIds : Undisturbed /\ FocusTerminalForSession(id)
    \/ \E k \in 1..MaxFocusing : NoClearDue /\ FocusPidsDone(k)
    \/ \E k \in 1..MaxFocusing : Undisturbed /\ FocusChainDone(k)
    \/ \E k \in 1..MaxFocusing, t \in Terminals \cup {NoTerminal} :
          Undisturbed /\ FocusPick(k, t)
    \/ \E k \in 1..MaxFocusing : NoResumeDue /\ FocusClear(k)

SpecShow == InitTerm /\ [][NextShow]_vars

\* a focus action has just called show() on a terminal
C27_Showed == lastOp.op \in {"match", "show"} /\ lastOp.shown # NoTerminal

\* C27: after every focus action that shows a terminal for a session, by
\* whatever rule the terminal was found, the affinity maps hold the pair of
\* that session and that terminal.
C27_ShownIsRecorded ==
    C27_Showed =>
        /\ tracker.sessionToTerminal[lastOp.id] = lastOp.shown
        /\ tracker.terminalToSession[lastOp.shown] = lastOp.id

\* C28: in every focus path, a recorded affinity of the session whose
\* terminal is still open decides the terminal that is shown, whatever the
\* match by process ids would return.
C28_RecordedAffinityIsShown ==
    ( /\ lastOp.op \in {"match", "show"}
      /\ lastOp.had.sessionToTerminal[lastOp.id] \in lastOp.terminals ) =>
        lastOp.shown = lastOp.had.sessionToTerminal[lastOp.id]

----------------------------------------------------------------------------
(* Claims about the versions of the request file, checked under SpecFocus *)

\* window w acts upon the request it holds in this step
C29_Acts(w) ==
    /\ ipc[w].pc = ClaimPc(2)
    /\ ipc'[w].pc = "idle"
    /\ reg[w][ipc[w].request.sessionId] # NoSession

\* C29: a window acts at most once upon one version of the request file:
\* once a poll has examined the file at some mtime, the window's later polls
\* go no further than the stat while the mtime is the same, also when the
\* delete of the file failed.
C29_OncePerVersion ==
    [][\A w \in Windows :
          /\ C29_Acts(w) =>
                 \A e \in acted : ~(e.w = w /\ e.seq = ipc[w].request.seq)
          /\ (ipc[w].pc = "idle" /\ ipc'[w].pc = "stat") =>
                 (focusFile.mtime # ipc[w].lastMtime /\
                  ipc'[w].lastMtime = focusFile.mtime)]_vars

----------------------------------------------------------------------------
(* Claims about the cached pid map, checked under SpecTerm *)

\* C30: the cached map from process ids to terminals is never stale with
\* respect to the opening and closing of terminals: whenever there is a
\* cached map, it is the map of the terminals that are open now, also when
\* a terminal opened or closed while the map was being built.
C30_CacheIsOfOpenTerminals ==
    terminalPidCache # NoCache => terminalPidCache.terms = OpenTerminals

----------------------------------------------------------------------------
(* Claims about the affinity maps, checked under SpecShow *)

\* C31: the two affinity maps are inverses of one another in every reachable
\* state: a session id is paired with at most one terminal, a terminal with
\* at most one session id, and each map has exactly the pairs of the other.
C31_AffinityIsBijection ==
    \A id \in SessionIds, t \in Terminals :
        tracker.sessionToTerminal[id] = t <=> tracker.terminalToSession[t] = id

\* associate has just paired a session that had another terminal with a
\* terminal that had another session
C31_Witness ==
    /\ lastOp.op \in {"match", "show"}
    /\ lastOp.shown # NoTerminal
    /\ lastOp.had.sessionToTerminal[lastOp.id] \notin {NoTerminal, lastOp.shown}
    /\ lastOp.had.terminalToSession[lastOp.shown] \notin {AbsentS, lastOp.id}
    /\ tracker.sessionToTerminal[lastOp.id] = lastOp.shown

----------------------------------------------------------------------------
(* Claims about the fallback of the match, checked under SpecTerm *)

C33_HasTerminalPid(session) ==
    session.terminalPid \notin {AbsentN, UndefinedN, 0}

\* C33: the walk of the process ancestry is used only for session records
\* without terminalPid: no focus action whose session has a terminalPid
\* waits for a process chain, and a match for such a session returns either
\* the open terminal with that process id or no terminal.
C33_WalkOnlyWithoutTerminalPid ==
    /\ \A k \in 1..Len(focusing) :
          focusing[k].pc = "chain" => ~C33_HasTerminalPid(focusing[k].session)
    /\ (lastOp.op = "match" /\ C33_HasTerminalPid(lastOp.session)) =>
          \/ lastOp.matched = NoTerminal
          \/ TermPid(lastOp.matched) = lastOp.session.terminalPid

----------------------------------------------------------------------------
(* Claims about the ancestry walk, checked under SpecChain: calls of
   getProcessChain for the pids of a process table that the OS reports *)

\* the pids the chain is asked for
StartPids == {3, MaxPid}

\* the clock steps by half the lifetime of a memoized chain
ChainTickMs == 300000
ChainTicks == 3

InitChain ==
    /\ now = SecMs
    /\ platform \in {"unix", "win32"}
    /\ tzOffset = 0
    /\ alive = AgentPids
    /\ disk = [id \in SessionIds |-> NoFile]
    /\ reg = [w \in Windows |-> EmptyRegistry]
    /\ roots = [w \in Windows |-> <<"/a">>]
    /\ clean = [w \in Windows |-> CleanIdle]
    /\ focusFile = NoFile
    /\ writes = 0
    /\ ipc = [w \in Windows |-> IpcIdle]
    /\ acted = {}
    /\ exposed = {}
    /\ replaced = {}
    /\ dir = TRUE
    /\ watch = WatchIdle
    /\ loads = [w \in Windows |-> <<>>]
    /\ terminals = [t \in Terminals |-> "none"]
    /\ terminalPidCache = NoCache
    /\ tracker = NoAffinity
    /\ focusing = <<>>
    /\ procs \in Lineages
    /\ polling = [w \in Windows |-> OncePolling]
    /\ processChainCache = NoChains
    /\ walking = NoWalk
    /\ lastOp = NoOp

NextChain ==
    \/ walking = NoWalk /\ Advance(ChainTickMs, SecMs + ChainTicks * ChainTickMs)
    \/ \E startPid \in StartPids : GetProcessChain(startPid)
    \/ \E ok \in BOOLEAN : UnixWalkStep(ok)
    \/ \E ok \in BOOLEAN : WindowsWalkDone(ok)

SpecChain == InitChain /\ [][NextChain]_vars

\* C32: the walk of the ancestors of an agent pid ends after at most the
\* fixed number of processes, whatever parent relation the OS reports (with
\* a cycle, without a root, with a failing query), and stops at the root or
\* where no parent is found.
C32_WalkIsBounded ==
    /\ walking # NoWalk => Len(walking.chain) <= MaxDepth
    /\ lastOp.op = "getProcessChain" => Len(lastOp.chain) <= MaxDepth

\* C34: a memoized chain that is served is the result of a walk whose
\* queries of the OS all succeeded: a walk with a failed or timed out query
\* is not memoized.
C34_ServedChainsAreSound ==
    (lastOp.op = "getProcessChain" /\ lastOp.cached) => ~lastOp.failed

----------------------------------------------------------------------------
(* C35: delivery of a request to the window whose token it carries *)

\* window w is in a poll that has found, past the comparison with lastMtime,
\* a complete request that is not stale and carries the token w has learned
C35_ExaminesOwnRequest(w) ==
    /\ ipc[w].pc \in {"stat", "read"}
    /\ focusFile.kind = "json"
    /\ ipc[w].pc = "read" => ipc[w].request = focusFile.obj
    /\ Truthy(ipc[w].learned)
    /\ focusFile.obj.vscodeIpcHandle = ipc[w].learned
    /\ ~IsStale(focusFile.obj)

\* C35: a poll of the target window that examines a fresh request carrying
\* the window's own, learned token does not end without claiming it: the poll
\* goes on to the claim and never back to idle with the request unclaimed
C35_OwnRequestIsClaimed ==
    [][\A w \in Windows :
          C35_ExaminesOwnRequest(w) => ipc'[w].pc # "idle"]_vars

----------------------------------------------------------------------------
(* C36: a claimed request whose session the window does not hold *)

\* the session that ends while a window still shows it
GoneId == "ppid-7x"

\* both windows have the folder of the session open
InitGone ==
    /\ InitFocus
    /\ roots = [w \in Windows |-> <<"/a">>]

\* sessions end and the windows reload, each in its own time, while requests
\* are written and polled; loadSessions runs between two polls of its window
NextGone ==
    \/ ProducerEnd(GoneId)
    \/ \E w \in Windows :
          /\ ipc[w].pc = "idle"
          /\ LoadSessions(w)
    \/ \E w \in Windows : LearnIpcHandleFromSessions(w)
    \/ \E w \in Windows :
          /\ writes < MaxRequests
          /\ SwitchToWindow(w, GoneId)
    \/ \E w \in Windows : PollStat(w)
    \/ \E w \in Windows : PollRead(w, TRUE)
    \/ \E w \in Windows : PollCheck(w)
    \/ \E w \in Windows, i \in 1..2, ok \in BOOLEAN : PollUnlink(w, i, ok)
    \/ \E w \in Windows, i \in 1..2, canFocus \in BOOLEAN :
          HandleFocusRequest(w, i, canFocus)

SpecGone == InitGone /\ [][NextGone]_vars

\* window w has claimed a request, has tried to delete the file, and its
\* registry holds no session with the request's sessionId
C36_HoldsUnknown(w) ==
    /\ ipc[w].pc = ClaimPc(2)
    /\ reg[w][ipc[w].request.sessionId] = NoSession

\* the request file holds request seq
C36_InFile(seq) == focusFile.kind = "json" /\ focusFile.obj.seq = seq

\* C36, as stated: when the claiming window holds no session with the
\* request's sessionId, the shared file is deleted and handleFocusRequest
\* does nothing: nobody is recorded as having acted, no session file, no
\* registry and no affinity changes, and the request is not in the file
\* afterwards.
C36_UnknownSessionConsumed ==
    [][\A w \in Windows :
          (C36_HoldsUnknown(w) /\ ipc'[w].pc = "idle") =>
              /\ acted' = acted
              /\ disk' = disk
              /\ reg' = reg
              /\ tracker' = tracker
              /\ ~C36_InFile(ipc[w].request.seq)]_vars

\* C36, amended: handleFocusRequest does nothing for an unknown session, and
\* the request is out of the file unless the window's unlink failed; a
\* request comes into the file only by a new write.
C36_UnknownSessionOnlyConsumes ==
    [][/\ \A w \in Windows :
             (C36_HoldsUnknown(w) /\ ipc'[w].pc = "idle") =>
                 /\ acted' = acted
                 /\ disk' = disk
                 /\ reg' = reg
                 /\ tracker' = tracker
                 /\ ipc[w].unlink \in {"ok", "gone"} =>
                        ~C36_InFile(ipc[w].request.seq)
       /\ (focusFile' # focusFile /\ focusFile'.kind = "json") =>
              /\ writes' = writes + 1
              /\ focusFile'.obj.seq = writes']_vars

\* a window has deleted the file of a request whose session it does not hold
C36_Witness ==
    \E w \in Windows :
        /\ C36_HoldsUnknown(w)
        /\ ipc[w].unlink = "ok"
        /\ focusFile = NoFile
        /\ acted = {}

----------------------------------------------------------------------------
(* C37: the token a window learns *)

\* C37: the identity token a window has learned is the token of that window
\* itself, never the token that a session of another window carries.
C37_LearnedTokenIsOwn ==
    \A w \in Windows :
        Truthy(ipc[w].learned) => ipc[w].learned = C4_WindowToken(w)

----------------------------------------------------------------------------
(* C38: the window that emits a request and its own poll *)

\* isSessionInCurrentWorkspace(session)
IsSessionInCurrentWorkspace(w, session) ==
    IF ~Truthy(session.cwd) THEN FALSE
    ELSE IsCwdInCurrentWorkspace(w, session.cwd)

\* isSessionInCurrentWindow(session)
IsSessionInCurrentWindow(w, session) ==
    IF Truthy(session.vscodeIpcHandle) /\ Truthy(ipc[w].learned)
    THEN session.vscodeIpcHandle = ipc[w].learned
    ELSE IsSessionInCurrentWorkspace(w, session)

\* the window that emits, and the session it emits for
SelfWindow == "w1"
SelfId == "ppid-7x"

\* the cwd and the token the record of that session may carry
SelfCwds == {"", "/a", "/c"}
SelfHandles == {AbsentS, "hA", "hB"}

SelfDisk(cwd, handle) ==
    [FocusDisk EXCEPT ![SelfId] =
        JsonFile([ProducerRecord(SelfId, "attention", "permission_prompt")
                     EXCEPT !.cwd = cwd, !.vscodeIpcHandle = handle])]

InitSelf ==
    /\ now = SecMs
    /\ platform = "unix"
    /\ tzOffset = 0
    /\ alive = AgentPids
    /\ disk \in {SelfDisk(cwd, handle) : cwd \in SelfCwds, handle \in SelfHandles}
    /\ reg = [w \in Windows |-> Loaded(disk)]
    /\ roots \in [Windows -> RootChoices]
    /\ clean = [w \in Windows |-> CleanIdle]
    /\ focusFile = NoFile
    /\ writes = 0
    /\ ipc = [w \in Windows |-> IpcIdle]
    /\ acted = {}
    /\ exposed = {}
    /\ replaced = {}
    /\ dir = TRUE
    /\ AuxIdle
    /\ lastOp = NoOp

\* the windows learn their tokens, then SelfWindow emits requests for a
\* session that isSessionInCurrentWindow says is not its own, and all
\* windows poll
NextSelf ==
    \/ \E w \in Windows :
          /\ writes = 0
          /\ LearnIpcHandleFromSessions(w)
    \/ /\ writes < MaxRequests
       /\ ~IsSessionInCurrentWindow(SelfWindow, reg[SelfWindow][SelfId])
       /\ SwitchToWindow(SelfWindow, SelfId)
    \/ \E w \in Windows : PollStat(w)
    \/ \E w \in Windows, readOk \in BOOLEAN : PollRead(w, readOk)
    \/ \E w \in Windows : PollCheck(w)
    \/ \E w \in Windows, i \in 1..2, ok \in BOOLEAN : PollUnlink(w, i, ok)
    \/ \E w \in Windows, i \in 1..2, canFocus \in BOOLEAN :
          HandleFocusRequest(w, i, canFocus)

SpecSelf == InitSelf /\ [][NextSelf]_vars

\* C38: the emitting window never claims its own request: a request that
\* switchToWindow wrote for a session for which isSessionInCurrentWindow is
\* false is not claimed by a poll of the window that wrote it.
C38_NoSelfClaim == ~InClaim(SelfWindow)

----------------------------------------------------------------------------
(* C40: the Directory Change Notifier after stop() *)

\* C40: after stop() or dispose(), and until the next start(), no OS watch is
\* held, no debounce timeout is pending, and no change signal fires.
C40_StoppedStaysQuiet ==
    ~watch.started =>
        /\ watch.watcher = "none"
        /\ watch.timers = {}
        /\ lastOp.op # "signal"

----------------------------------------------------------------------------
(* C39: the poll timers of a CrossWindowIpc instance *)

InitPoll ==
    /\ now = SecMs
    /\ platform = "unix"
    /\ tzOffset = 0
    /\ alive = AgentPids
    /\ disk = FocusDisk
    /\ reg = [w \in Windows |-> Loaded(disk)]
    /\ roots = [w \in Windows |-> <<"/a">>]
    /\ clean = [w \in Windows |-> CleanIdle]
    /\ focusFile = NoFile
    /\ writes = 0
    /\ ipc = [w \in Windows |-> IpcIdle]
    /\ acted = {}
    /\ exposed = {}
    /\ replaced = {}
    /\ dir = TRUE
    /\ watch = WatchIdle
    /\ loads = [w \in Windows |-> <<>>]
    /\ terminals = [t \in Terminals |-> "none"]
    /\ terminalPidCache = NoCache
    /\ tracker = NoAffinity
    /\ focusing = <<>>
    /\ procs = NoProcs
    /\ processChainCache = NoChains
    /\ walking = NoWalk
    /\ polling = [w \in Windows |-> NoPolling]
    /\ lastOp = NoOp

\* the windows start and stop polling in any order while a request is
\* written and polled
NextPoll ==
    \/ \E w \in Windows : StartPolling(w)
    \/ \E w \in Windows : StopPolling(w)
    \/ \E w \in Windows : Dispose(w)
    \/ \E w \in Windows :
          /\ writes < MaxRequests
          /\ SwitchToWindow(w, "ppid-7x")
    \/ \E w \in Windows : PollStat(w)
    \/ \E w \in Windows : PollRead(w, TRUE)
    \/ \E w \in Windows : PollCheck(w)
    \/ \E w \in Windows, i \in 1..2, ok \in BOOLEAN : PollUnlink(w, i, ok)
    \/ \E w \in Windows, i \in 1..2, canFocus \in BOOLEAN :
          HandleFocusRequest(w, i, canFocus)

SpecPoll == InitPoll /\ [][NextPoll]_vars

\* C39: at most one poll timer of an instance is active at any time, and
\* once stopPolling() or dispose() has run, and until the next startPolling,
\* no timer of the instance is left and the instance is in no poll.
C39_StoppedPollsNoMore ==
    \A w \in Windows :
        /\ Cardinality(polling[w].intervals) <= 1
        /\ polling[w].pollingInterval = 0 =>
              /\ polling[w].intervals = {}
              /\ ipc[w].pc = "idle"

====
